---- MODULE Spec2Model ----
(***************************************************************************)
(* Verification model of SVModInstaller: the content synchroniser         *)
(* (manage_mod / show_mod_menu, src/src/SVModInstaller.py), the path       *)
(* resolver (get_stardew_game_path, src/src/SVPathFinder.py) and the       *)
(* archive stager (expand_zip_file, src/src/tool.py).                      *)
(*                                                                         *)
(* Each component has its own specification (SpecSync, SpecPath, SpecZip)  *)
(* over the shared variables; a specification keeps the variables of the   *)
(* other components at their initial values.                               *)
(***************************************************************************)
EXTENDS Integers, Sequences, FiniteSets, TLC

\* ------------------------------------------------------------------ bounds
\* Unit names (the entries of mods_path and of a mod folder) are 1..MaxUnits.
MaxUnits == 2
\* Names of the files inside a directory unit are 1..MaxFiles.
MaxFiles == 1
\* At most MaxFaults file-system operations are refused during one run.
MaxFaults == 1
\* The manifest lists at most MaxLibs library entries.
MaxLibs == 2
\* Names of the entries of an archive are 1..MaxNames.
MaxNames == 2
\* expand_zip_file is called at most MaxCalls times.
MaxCalls == 2
\* The user gives at most MaxInvalid invalid answers at the menu of main.
MaxInvalid == 2

VARIABLES
    \* --- content synchroniser (SVModInstaller.py) ---
    modDirs,     \* the entries of the staged Mods directory that are visible directories
    src,         \* src[m][u]: the unit named u of the mod folder m
    dest,        \* dest[u]: the entry named u of mods_path
    dest0,       \* history: mods_path before the run
    pc,          \* position of the run: "idle", "loop", "done"
    operation,   \* "copy" or "remove"
    todo,        \* the manage_mod calls show_mod_menu still has to make
    call,        \* locals of the running manage_mod call
    before,      \* history: mods_path when the running manage_mod call began
    hist,        \* history of the running/last manage_mod call
    calls,       \* history: the summary of every finished manage_mod call
    nfaults,     \* history: the operations refused so far in this run
    \* --- path resolver (SVPathFinder.py) ---
    steam,       \* the registry value, the manifest and the libraries' directories
    steam0,      \* history: steam before the call
    found,       \* the outcome of get_stardew_game_path
    \* --- archive stager (tool.py) ---
    disk,        \* disk[d]: the directory named d beside the archive
    outside,     \* the names created outside every destination directory
    zip,         \* outcome of the last expand_zip_file call
    returned,    \* history: the destination names a call has returned a path for
    decoded,     \* the stored name of an archive entry and what the loop made of it
    archive,     \* the archive a caller stages again and again
    \* --- end-user session (main of SVModInstaller.py) ---
    sess,        \* position and history of the session
    tmp,         \* tmp[d]: the temporary directory d exists under the resource directory
    desk,        \* the companion app's directory and the desktop shortcut
    \* --- developer tool (project.py, get_project_version of tool.py) ---
    cache,       \* cache[r]: the release-info cache file of the upstream project r
    info,        \* outcome and history of the last get_latest_zip_info call
    ver,         \* inputs and outcome of get_project_version
    tool         \* the command run by the developer tool and how its process ended

syncVars ==
    <<modDirs, src, dest, dest0, pc, operation, todo, call, before, hist, calls,
      nfaults>>

pathVars == <<steam, steam0, found>>

zipVars == <<disk, outside, zip, returned, decoded, archive>>

mainVars == <<sess, tmp, desk>>

devVars == <<cache, info, ver, tool>>

vars == <<syncVars, pathVars, zipVars, mainVars, devVars>>

\* What the steps of one component leave alone.
notSyncVars == <<pathVars, zipVars, mainVars, devVars>>
notPathVars == <<syncVars, zipVars, mainVars, devVars>>
notZipVars == <<syncVars, pathVars, mainVars, devVars>>
notMainVars == <<syncVars, pathVars, zipVars, devVars>>
notDevVars == <<syncVars, pathVars, zipVars, mainVars>>

\* ------------------------------------------------------------ file system
\* The two mod folders of the staged archive (A and B of the specification).
Mods == 1..2
Names == 1..MaxUnits
FileNames == 1..MaxFiles

\* What a file holds is abstracted to where it comes from: the mod folder m
\* (a file of the staged archive), 0 (an older version left in mods_path),
\* -1 (no such file).
NoFiles == [f \in FileNames |-> -1]

\* An entry of a directory: absent, a file, or a directory of files. "inner"
\* is the file a directory holds under the directory's own name (shutil.copy2
\* of a file onto a directory copies into it), -1 when there is none.
Absent == [kind |-> "absent", data |-> -1, files |-> NoFiles, inner |-> -1]
File(c) == [kind |-> "file", data |-> c, files |-> NoFiles, inner |-> -1]
Dir(fs, n) == [kind |-> "dir", data |-> -1, files |-> fs, inner |-> n]

\* The entries a tree of provenance c can hold.
EntriesOf(c) ==
    {Absent, File(c)} \cup {Dir(fs, -1) : fs \in [FileNames -> {-1, c}]}

Exists(e) == e.kind # "absent"

\* What the operating system refuses during one unit's processing.
\*   rmFail : the files of the target whose os.remove fails (0: the inner file)
\*   rootFail : removing the target itself (os.rmdir of the root, os.remove of
\*              a file target) fails
\*   cpFail : the files of the source whose shutil.copy2 fails
\*   cpAbort : the copy fails as a whole (exists/listdir/makedirs/copy2 raises)
\* The refusals that can occur for a unit `item` against the entry `target`
\* (only an operation that is attempted can fail):
FaultsFor(item, target, op) ==
    [rmFail : SUBSET ({f \in FileNames : target.files[f] # -1}
                         \cup (IF target.inner # -1 THEN {0} ELSE {})),
     rootFail : IF Exists(target) THEN BOOLEAN ELSE {FALSE},
     cpFail : SUBSET (IF op = "copy"
                      THEN {f \in FileNames : item.files[f] # -1}
                      ELSE {}),
     cpAbort : IF op = "copy" THEN BOOLEAN ELSE {FALSE}]

FaultCount(F) ==
    Cardinality(F.rmFail) + Cardinality(F.cpFail)
        + (IF F.rootFail THEN 1 ELSE 0) + (IF F.cpAbort THEN 1 ELSE 0)

\* remove_longpath_file: os.remove, every error logged and swallowed.
remove_longpath_file(e, F) ==
    IF F.rootFail THEN [entry |-> e, error |-> TRUE]
    ELSE [entry |-> Absent, error |-> FALSE]

\* rmtree_longpath: bottom-up os.walk; a file whose os.remove fails stays
\* (error logged); the final os.rmdir fails when the directory is not empty or
\* the system refuses; that error is logged too and not re-raised.
rmtree_longpath(e, F) ==
    LET files == [f \in FileNames |-> IF f \in F.rmFail THEN e.files[f] ELSE -1]
        inner == IF 0 \in F.rmFail THEN e.inner ELSE -1
        left == (\E f \in FileNames : files[f] # -1) \/ inner # -1
    IN  IF left \/ F.rootFail
        THEN [entry |-> Dir(files, inner), error |-> TRUE]
        ELSE [entry |-> Absent, error |-> FALSE]

\* Variant of _remove_target_item: the old version is reported removed and
\* left in place.
_remove_target_item_keeps(e, F) ==
    [ok |-> TRUE, entry |-> e, error |-> FALSE]

\* manage_mod._remove_target_item: True unless the target is neither a
\* directory nor a file (or a call raises); the removers never raise.
_remove_target_item(e, F) ==
    IF ~Exists(e) THEN [ok |-> TRUE, entry |-> e, error |-> FALSE]
    ELSE IF e.kind = "dir"
    THEN LET r == rmtree_longpath(e, F)
         IN [ok |-> TRUE, entry |-> r.entry, error |-> r.error]
    ELSE IF e.kind = "file"
    THEN LET r == remove_longpath_file(e, F)
         IN [ok |-> TRUE, entry |-> r.entry, error |-> r.error]
    ELSE [ok |-> FALSE, entry |-> e, error |-> TRUE]

\* copytree_longpath(src, dst): makedirs(exist_ok), then every name of the
\* source is copied; the errors are collected and raised at the end, after the
\* other names were copied. A file at dst makes makedirs raise.
copytree_longpath(s, d, F) ==
    IF F.cpAbort \/ d.kind = "file"
    THEN [entry |-> d, raised |-> TRUE]
    ELSE LET old == IF d.kind = "dir" THEN d.files ELSE NoFiles
             files == [f \in FileNames |->
                         IF s.files[f] # -1 /\ f \notin F.cpFail
                         THEN s.files[f] ELSE old[f]]
         IN [entry |-> Dir(files, d.inner),
             raised |-> \E f \in F.cpFail : s.files[f] # -1]

\* shutil.copy2(item, target): onto a directory it copies into the directory,
\* under the item's name.
copy2(s, d, F) ==
    IF F.cpAbort THEN [entry |-> d, raised |-> TRUE]
    ELSE IF d.kind = "dir"
    THEN [entry |-> Dir(d.files, s.data), raised |-> FALSE]
    ELSE [entry |-> File(s.data), raised |-> FALSE]

\* Variant of loop_body: a unit that is not in mods_path makes the remove
\* operation count a failure.
loop_body_absent_fails(item, target, op, F) ==
    IF op = "copy"
    THEN LET r == _remove_target_item(target, F)
             c == IF item.kind = "dir"
                  THEN copytree_longpath(item, r.entry, F)
                  ELSE copy2(item, r.entry, F)
         IN [entry |-> c.entry,
             count |-> IF c.raised THEN "failed" ELSE "processed",
             copied |-> TRUE, delError |-> r.error, cpError |-> c.raised,
             escapes |-> FALSE]
    ELSE LET r == _remove_target_item(target, F)
         IN [entry |-> r.entry,
             count |-> IF Exists(target) /\ r.ok THEN "processed" ELSE "failed",
             copied |-> FALSE, delError |-> r.error, cpError |-> FALSE,
             escapes |-> FALSE]

\* One iteration of manage_mod's loop over source_path.iterdir(): the unit
\* `item` of the source against the same-named entry `target` of mods_path.
\* count is what the iteration adds to: "processed", "failed" or "none";
\* escapes tells whether an exception leaves the try block of the iteration
\* uncaught (the handler catches Exception, so none does).
loop_body(item, target, op, F) ==
    IF op = "copy"
    THEN LET r == _remove_target_item(target, F)
         IN IF ~r.ok
            THEN [entry |-> r.entry, count |-> "failed", copied |-> FALSE,
                  delError |-> r.error, cpError |-> FALSE, escapes |-> FALSE]
            ELSE LET c == IF item.kind = "dir"
                          THEN copytree_longpath(item, r.entry, F)
                          ELSE copy2(item, r.entry, F)
                 IN [entry |-> c.entry,
                     count |-> IF c.raised THEN "failed" ELSE "processed",
                     copied |-> TRUE,
                     delError |-> r.error, cpError |-> c.raised,
                     escapes |-> FALSE]
    ELSE IF Exists(target)
         THEN LET r == _remove_target_item(target, F)
              IN [entry |-> r.entry,
                  count |-> IF r.ok THEN "processed" ELSE "failed",
                  copied |-> FALSE, delError |-> r.error, cpError |-> FALSE,
                  escapes |-> FALSE]
         ELSE [entry |-> target, count |-> "none", copied |-> FALSE,
               delError |-> FALSE, cpError |-> FALSE, escapes |-> FALSE]

\* The closing message of manage_mod.
summary(processed, failed) ==
    IF failed > 0 THEN "failed"
    ELSE IF processed > 0 THEN "success"
    ELSE "nochange"

Units(m) == {u \in Names : Exists(src[m][u])}

NoCall ==
    [source |-> 0, active |-> FALSE, remaining |-> {},
     items_processed |-> 0, items_failed |-> 0, report |-> "none"]

\* The locals of a manage_mod call on the directory m as its loop begins.
NewCall(m) ==
    [NoCall EXCEPT !.source = m, !.active = TRUE, !.remaining = Units(m)]

\* The record kept of a manage_mod call that ended with the locals c and the
\* history h: its arguments, what it counted and printed, and mods_path
\* before and after it.
Ended(c, h, op, was, now) ==
    [source |-> c.source, operation |-> op,
     items_processed |-> c.items_processed, items_failed |-> c.items_failed,
     report |-> c.report, before |-> was, after |-> now, hist |-> h]

NoHist ==
    [visited |-> {}, counted_ok |-> {}, counted_failed |-> {}, copied |-> {},
     delError |-> {}, cpError |-> {}, raised |-> FALSE]

\* ------------------------------------------------- the components at rest
\* No Steam installation looked at, get_stardew_game_path not called.
NoSteam == [reg |-> "error", vdfError |-> TRUE, manifest |-> "missing", libs |-> <<>>]

NotFound == [pc |-> "idle", result |-> 0, raised |-> FALSE, report |-> "none"]

PathIdle == steam = NoSteam /\ steam0 = NoSteam /\ found = NotFound

\* The two destination names an archive is staged under (the resource
\* directory holds SMAPI_Installer, Mods and Stardrop).
DestNames == 1..2
EntryNames == 1..MaxNames

\* A directory beside the archive: whether it exists and what it holds under
\* each name: -1 nothing, -2 a directory, 0 a file cut short, v >= 1 the file
\* of the archive's version v.
NoDir == [exists |-> FALSE, holds |-> [n \in EntryNames |-> -1]]

NoZip ==
    [n |-> 0, dest |-> 0, existed |-> FALSE, again |-> FALSE, raised |-> FALSE,
     error |-> "none", at |-> 0, slip |-> 0,
     result |-> 0, extracted |-> FALSE, changed |-> FALSE, complete |-> FALSE,
     prefix |-> FALSE, others |-> FALSE, retry |-> FALSE,
     present |-> FALSE]

\* No archive chosen.
NoArchive == [entries |-> <<>>, version |-> 0]

\* No entry name looked at.
NoName == [pc |-> "idle", stored |-> <<>>, via |-> "none", text |-> <<>>,
           warned |-> FALSE, error |-> "none"]

ZipIdle ==
    /\ disk = [d \in DestNames |-> NoDir]
    /\ outside = {}
    /\ zip = NoZip
    /\ returned = {}
    /\ decoded = NoName
    /\ archive = NoArchive

\* The temporary directories main removes at its end.
TempDirs == {"SMAPI_Installer", "Mods", "Stardrop"}

\* main not started: no step taken, nothing reported.
NoSession ==
    [pc |-> "start", trace |-> <<>>, game |-> "unknown", choice |-> "none",
     invalid |-> 0, installed_smapi |-> FALSE, launched |-> 0,
     smapi |-> "none", wizard |-> "none", stager |-> {}, escaped |-> "none",
     attempted |-> {}, delFailed |-> {}, shortcut0 |-> "none",
     stardrop0 |-> FALSE,
     paused |-> FALSE, exit |-> "none"]

MainIdle ==
    /\ sess = NoSession
    /\ tmp = [d \in TempDirs |-> FALSE]
    /\ desk = [stardrop |-> FALSE, shortcut |-> "none"]

\* REPO_API_URLS: the upstream projects the developer tool follows.
Repos == {"SMAPI", "Stardrop"}

\* A release document of the upstream API, by its tag_name and by whether its
\* asset list holds the archive name the tool looks for; tag 0: no document.
NoRelease == [tag |-> 0, asset |-> FALSE]

\* No cache file.
NoCacheFile == [exists |-> FALSE, age |-> 0, data |-> NoRelease]

\* No get_latest_zip_info call made.
NoInfo ==
    [n |-> 0, repo |-> "none", existed |-> FALSE, age |-> 0, before |-> NoRelease,
     calls |-> 0, status |-> 0, sent |-> NoRelease, rewritten |-> FALSE,
     kept |-> TRUE, result |-> "none", data |-> NoRelease, ticks |-> 0]

\* get_project_version not called.
NoVersion == [pc |-> "idle"]

\* BUILD_ITEMS: the executables the developer tool builds.
Exes == {"SVModInstaller", "SVPathFinder"}

\* No command of the developer tool run: the src directory exists, the dist,
\* resource and release directories are empty. An executable of dist and of
\* the release package is numbered: 0 for none, 1 for one left by an earlier
\* build, n + 1 for the one built by the n-th run.
NoTool ==
    [runs |-> 0, cmd |-> "none", exit |-> 0, failure |-> "none",
     reported |-> FALSE, success |-> FALSE, changed |-> FALSE, built |-> FALSE,
     src |-> TRUE,
     dist |-> [x \in Exes |-> 0],
     res |-> [r \in Repos |-> "none"], attempted |-> {}, downloaded |-> {},
     pkg |-> FALSE,
     pkgExe |-> 0, zips |-> {}]

DevIdle ==
    /\ cache = [r \in Repos |-> NoCacheFile]
    /\ info = NoInfo
    /\ ver = NoVersion
    /\ tool = NoTool

\* Nothing staged, mods_path empty, no manage_mod call made.
SyncIdle ==
    /\ modDirs = {}
    /\ src = [m \in Mods |-> [u \in Names |-> Absent]]
    /\ dest = [u \in Names |-> Absent]
    /\ dest0 = dest
    /\ pc = "idle"
    /\ operation = "none"
    /\ todo = <<>>
    /\ call = NoCall
    /\ before = dest
    /\ hist = NoHist
    /\ calls = <<>>
    /\ nfaults = 0

\* ------------------------------------------------------------------ Init
\* An entry of provenance 1 retagged as one of the mod folder m.
Tag(e, m) ==
    [kind |-> e.kind,
     data |-> IF e.data = -1 THEN -1 ELSE m,
     files |-> [f \in FileNames |-> IF e.files[f] = -1 THEN -1 ELSE m],
     inner |-> -1]

\* The staged Mods directory: at most two units in all (two units of one mod
\* folder, or one unit in each, of the same name or not), each unit holding
\* files of its own mod.
Slots == Mods \X Names

SourceTrees ==
    {[m \in Mods |-> [u \in Names |->
          IF <<m, u>> = p1 THEN Tag(e1, m)
          ELSE IF <<m, u>> = p2 THEN Tag(e2, m)
          ELSE Absent]] :
       p1 \in Slots, p2 \in Slots, e1 \in EntriesOf(1), e2 \in EntriesOf(1)}

\* mods_path before the run: at most one entry, of an older version.
DestTrees ==
    {[u \in Names |-> IF u = n THEN e ELSE Absent] :
       n \in Names, e \in EntriesOf(0)}

InitSync ==
    /\ modDirs \in SUBSET Mods
    /\ src \in {s \in SourceTrees :
                    \A m \in Mods \ modDirs : \A u \in Names : ~Exists(s[m][u])}
    /\ dest \in DestTrees
    /\ dest0 = dest
    /\ pc = "idle"
    /\ operation = "none"
    /\ todo = <<>>
    /\ call = NoCall
    /\ before = dest
    /\ hist = NoHist
    /\ calls = <<>>
    /\ nfaults = 0
    /\ PathIdle
    /\ ZipIdle
    /\ MainIdle
    /\ DevIdle

\* --------------------------------------------------------------- actions
\* Variant of Enter: the source is not checked to be a directory.
Enter_unchecked(sources, op) ==
    IF sources = <<>>
    THEN /\ pc' = "done"
         /\ todo' = <<>>
         /\ UNCHANGED <<call, before, hist, calls>>
    ELSE /\ call' = NewCall(Head(sources))
         /\ before' = dest
         /\ hist' = NoHist
         /\ calls' = calls
         /\ todo' = Tail(sources)
         /\ pc' = "loop"

\* manage_mod, entry, for the first of the calls `sources` still to make: a
\* source that is no directory is reported and the call returns at once;
\* otherwise the counters start at zero and the loop begins. With no call
\* left the run is over.
Enter(sources, op) ==
    IF sources = <<>>
    THEN /\ pc' = "done"
         /\ todo' = <<>>
         /\ UNCHANGED <<call, before, hist, calls>>
    ELSE LET m == Head(sources)
         IN IF m \notin modDirs
            THEN /\ call' = [NoCall EXCEPT !.source = m, !.report = "invalid"]
                 /\ before' = dest
                 /\ hist' = NoHist
                 /\ calls' = Append(calls, Ended(call', NoHist, op, dest, dest))
                 /\ todo' = <<>>
                 /\ pc' = "done"
            ELSE /\ call' = NewCall(m)
                 /\ before' = dest
                 /\ hist' = NoHist
                 /\ calls' = calls
                 /\ todo' = Tail(sources)
                 /\ pc' = "loop"

\* The listings mod_folders that iterdir may give of the staged directory.
Orders == {o \in [1..Cardinality(modDirs) -> modDirs] :
              \A i, j \in DOMAIN o : i # j => o[i] # o[j]}

\* show_mod_menu, from the listing of the staged directory on: the choice
\* len(mods)+1 runs manage_mod for every mod folder in listing order, a
\* choice 1..len(mods) for that one, any other input for none. An empty
\* listing returns before the prompt.
show_mod_menu(op, mods, choice) ==
    /\ pc = "idle"
    /\ mods \in Orders
    /\ operation' = op
    /\ Enter(IF Len(mods) = 0 THEN <<>>
             ELSE IF choice = Len(mods) + 1 THEN mods
             ELSE IF 1 <= choice /\ choice <= Len(mods) THEN <<mods[choice]>>
             ELSE <<>>, op)
    /\ UNCHANGED <<modDirs, src, dest, dest0, nfaults, notSyncVars>>

\* manage_mod called on its own, with a mod folder or with a path that is no
\* directory.
manage_mod(source_folder, op) ==
    /\ pc = "idle"
    /\ operation' = op
    /\ Enter(<<source_folder>>, op)
    /\ UNCHANGED <<modDirs, src, dest, dest0, nfaults, notSyncVars>>

\* manage_mod, one iteration of the loop (iterdir yields the units in no
\* particular order). An exception that escaped the iteration would end the
\* call and the run.
manage_mod_item(u, F) ==
    /\ pc = "loop"
    /\ u \in call.remaining
    /\ nfaults + FaultCount(F) <= MaxFaults
    /\ nfaults' = nfaults + FaultCount(F)
    /\ LET r == loop_body(src[call.source][u], dest[u], operation, F)
       IN /\ dest' = [dest EXCEPT ![u] = r.entry]
          /\ call' = [call EXCEPT
                 !.remaining = IF r.escapes THEN {} ELSE @ \ {u},
                 !.active = ~r.escapes,
                 !.items_processed = IF r.count = "processed" THEN @ + 1 ELSE @,
                 !.items_failed = IF r.count = "failed" THEN @ + 1 ELSE @]
          /\ hist' = [hist EXCEPT
                 !.visited = @ \cup {u},
                 !.counted_ok = IF r.count = "processed" THEN @ \cup {u} ELSE @,
                 !.counted_failed = IF r.count = "failed" THEN @ \cup {u} ELSE @,
                 !.copied = IF r.copied THEN @ \cup {u} ELSE @,
                 !.delError = IF r.delError THEN @ \cup {u} ELSE @,
                 !.cpError = IF r.cpError THEN @ \cup {u} ELSE @,
                 !.raised = r.escapes]
          /\ pc' = IF r.escapes THEN "done" ELSE "loop"
          /\ todo' = IF r.escapes THEN <<>> ELSE todo
          /\ calls' = IF r.escapes
                      THEN Append(calls, Ended([call' EXCEPT !.report = "raised"],
                                               hist', operation, before, dest'))
                      ELSE calls
    /\ UNCHANGED <<modDirs, src, dest0, operation, before, notSyncVars>>

\* manage_mod, after the loop: the closing message and the return; then
\* show_mod_menu makes its next call, or returns.
manage_mod_exit ==
    /\ pc = "loop"
    /\ call.remaining = {}
    /\ LET last == [call EXCEPT !.active = FALSE,
                       !.report = summary(call.items_processed, call.items_failed)]
       IN /\ calls' = Append(calls, Ended(last, hist, operation, before, dest))
          /\ IF todo = <<>>
             THEN /\ call' = last
                  /\ pc' = "done"
                  /\ UNCHANGED <<todo, before, hist>>
             ELSE /\ call' = NewCall(Head(todo))
                  /\ before' = dest
                  /\ hist' = NoHist
                  /\ todo' = Tail(todo)
                  /\ pc' = "loop"
    /\ UNCHANGED <<modDirs, src, dest, dest0, operation, nfaults, notSyncVars>>

Operations == {"copy", "remove"}

NextSync ==
    \/ \E op \in Operations, mods \in Orders, choice \in 0..(Cardinality(Mods) + 1) :
          show_mod_menu(op, mods, choice)
    \/ \E m \in Mods, op \in Operations : manage_mod(m, op)
    \/ \E u \in call.remaining :
          \E F \in FaultsFor(src[call.source][u], dest[u], operation) :
             manage_mod_item(u, F)
    \/ manage_mod_exit

SpecSync == InitSync /\ [][NextSync]_vars

\* ------------------------------------------------- claims: synchroniser
\* The finished manage_mod calls of the given operation on a directory.
EndedCalls(op) ==
    {i \in DOMAIN calls :
        calls[i].operation = op /\ calls[i].source \in modDirs}

\* The unit u of the mod folder m is mirrored by the entry e of mods_path.
Mirrors(e, m, u) == e = src[m][u]

\* C1 (as claimed): after a copy call of manage_mod, every unit of the source
\* whose copy raised nothing is exactly mirrored by the same-named entry of
\* mods_path, whatever mods_path held before and also when deleting the old
\* version failed part-way.
C1_CopyMirrorsSource ==
    \A i \in EndedCalls("copy") :
        \A u \in Units(calls[i].source) \ calls[i].hist.cpError :
            Mirrors(calls[i].after[u], calls[i].source, u)

\* C3 (as claimed): in a copy call, a unit whose old version could not be
\* deleted is counted as failed and is not copied, and every unit of the
\* source is still processed.
C3_FailedDeleteAbortsUnit ==
    \A i \in EndedCalls("copy") :
        /\ \A u \in calls[i].hist.delError :
              u \in calls[i].hist.counted_failed /\ u \notin calls[i].hist.copied
        /\ calls[i].hist.visited = Units(calls[i].source)

\* C4 (as claimed): manage_mod never raises for a failure on one unit; a unit
\* whose copy or removal hit an error is counted as failed, and every unit of
\* the source is processed in the same call.
C4_PerUnitFailureCounted ==
    \A i \in DOMAIN calls :
        calls[i].source \in modDirs =>
            /\ ~calls[i].hist.raised
            /\ \A u \in calls[i].hist.delError \cup calls[i].hist.cpError :
                  u \in calls[i].hist.counted_failed
            /\ calls[i].hist.visited = Units(calls[i].source)

\* C5: a remove call for a mod none of whose units is in mods_path counts
\* zero succeeded and zero failed, reports "no changes" and leaves mods_path
\* as it was.
C5_RemoveAbsentIsNoOp ==
    \A i \in EndedCalls("remove") :
        (\A u \in Units(calls[i].source) : ~Exists(calls[i].before[u])) =>
            /\ calls[i].items_processed = 0
            /\ calls[i].items_failed = 0
            /\ calls[i].report = "nochange"
            /\ calls[i].after = calls[i].before

\* C5 witness: a remove call ended for a mod with a unit, none of its units
\* in mods_path, mods_path not empty.
C5_Witness ==
    \E i \in EndedCalls("remove") :
        /\ Units(calls[i].source) # {}
        /\ \A u \in Units(calls[i].source) : ~Exists(calls[i].before[u])
        /\ \E n \in Names : Exists(calls[i].before[n])

\* C6 (as claimed): a call with a source that is no directory ends with the
\* outcome (0, 1) and mods_path untouched.
C6_InvalidSourceCountsOneFailed ==
    \A i \in DOMAIN calls :
        calls[i].source \notin modDirs =>
            /\ calls[i].items_processed = 0
            /\ calls[i].items_failed = 1
            /\ calls[i].after = calls[i].before

\* C6 (amended): a call with a source that is no directory returns before
\* any counting: it reports the invalid source, counts neither a success nor
\* a failure, visits no unit and leaves mods_path untouched.
C6_InvalidSourceShortCircuits ==
    \A i \in DOMAIN calls :
        calls[i].source \notin modDirs =>
            /\ calls[i].report = "invalid"
            /\ calls[i].items_processed = 0
            /\ calls[i].items_failed = 0
            /\ calls[i].hist.visited = {}
            /\ calls[i].after = calls[i].before
            /\ dest = calls[i].before

\* C6 witness: such a call ended, with mods_path not empty.
C6_Witness ==
    \E i \in DOMAIN calls :
        /\ calls[i].source \notin modDirs
        /\ \E n \in Names : Exists(calls[i].before[n])

\* A run of show_mod_menu("copy") with the choice "all" has ended: manage_mod
\* was called once for every mod folder.
AllCopyRun ==
    /\ pc = "done"
    /\ operation = "copy"
    /\ modDirs = Mods
    /\ Len(calls) = Cardinality(Mods)

\* mods_path held, before the run, an older entry named like a mod folder.
StaleModEntry == \E m \in Mods \cap Names : Exists(dest0[m])

\* The entry e of mods_path is the mod folder m itself: a directory whose
\* children are exactly the units of m. (An entry of mods_path holds files,
\* and under its own name the file "inner".)
MirrorsFolder(e, m) ==
    /\ e.kind = "dir"
    /\ \A f \in FileNames : e.files[f] = -1
    /\ Units(m) \subseteq {m}
    /\ IF m \in Units(m)
       THEN src[m][m].kind = "file" /\ e.inner = src[m][m].data
       ELSE e.inner = -1

RECURSIVE SumOver(_, _)
SumOver(f, S) ==
    IF S = {} THEN 0
    ELSE LET x == CHOOSE y \in S : TRUE IN f[x] + SumOver(f, S \ {x})

\* C2 (as claimed): with the non-empty mod folders A and B staged and an
\* older A in mods_path, "all" of copy (no operation refused) leaves
\* mods_path with exactly the entries A and B, each the mirror of its mod
\* folder, and 2 succeeded, 0 failed.
C2_AllCopyLeavesModFolders ==
    (AllCopyRun /\ nfaults = 0 /\ StaleModEntry /\ \A m \in Mods : Units(m) # {}) =>
        /\ {n \in Names : Exists(dest[n])} = Mods
        /\ \A m \in Mods : MirrorsFolder(dest[m], m)
        /\ SumOver([i \in DOMAIN calls |-> calls[i].items_processed], DOMAIN calls)
              = Cardinality(Mods)
        /\ SumOver([i \in DOMAIN calls |-> calls[i].items_failed], DOMAIN calls) = 0

\* The call of the run that processed the unit name n last.
LastCallWith(n) ==
    CHOOSE i \in DOMAIN calls :
        /\ n \in Units(calls[i].source)
        /\ \A j \in DOMAIN calls : n \in Units(calls[j].source) => j <= i

\* C2 (amended): "all" of copy calls manage_mod once per mod folder, and each
\* call counts every unit (direct child) of its folder once, as succeeded or
\* failed. When no operation is refused, every call counts all its units as
\* succeeded and none as failed, and mods_path then holds, under the name of
\* every unit of A and B, the exact mirror of that unit (of the folder listed
\* last, for a name both folders use) and under every other name what it held
\* before: the entries are the units' names, not A and B, and an older A
\* stays unless a unit is named A.
C2_AllCopyInstallsUnits ==
    AllCopyRun =>
        /\ \A i \in DOMAIN calls :
              calls[i].items_processed + calls[i].items_failed
                  = Cardinality(Units(calls[i].source))
        /\ nfaults = 0 =>
              /\ \A i \in DOMAIN calls :
                    /\ calls[i].items_failed = 0
                    /\ calls[i].report =
                          IF Units(calls[i].source) = {} THEN "nochange" ELSE "success"
              /\ \A n \in Names :
                    IF \E m \in Mods : n \in Units(m)
                    THEN Mirrors(dest[n], calls[LastCallWith(n)].source, n)
                    ELSE dest[n] = dest0[n]

\* C2 witness: such a run ended with nothing refused, both mod folders with
\* a unit, over an older entry named like a mod folder that a unit replaces.
C2_Witness ==
    /\ AllCopyRun /\ nfaults = 0 /\ StaleModEntry
    /\ \A m \in Mods : Units(m) # {}
    /\ \E n \in Names : Exists(dest0[n]) /\ dest[n] # dest0[n]

\* ========================================================== path resolver
\* A value of the libraryfolders mapping. isDict: it is a mapping; hasPath,
\* hasApps: it has the keys 'path', 'apps'; pathIsStr: the value of 'path' is
\* a string; appsIsDict: the value of 'apps' is a mapping; hasApp: that mapping
\* has the key '413150'; dirExists: <path>/steamapps/common/Stardew Valley is
\* a directory.
LibEntries ==
    {e \in [isDict : BOOLEAN, hasPath : BOOLEAN, pathIsStr : BOOLEAN,
            hasApps : BOOLEAN, appsIsDict : BOOLEAN, hasApp : BOOLEAN,
            dirExists : BOOLEAN] :
        /\ (e.hasPath \/ e.hasApps) => e.isDict
        /\ e.pathIsStr => e.hasPath
        /\ e.dirExists => e.pathIsStr
        /\ e.appsIsDict => e.hasApps
        /\ e.hasApp => e.appsIsDict}

Manifests == {<<>>} \cup UNION {[1..n -> LibEntries] : n \in 1..MaxLibs}

\* What get_stardew_game_path may find. reg: the SteamPath value is read
\* ("ok"), cannot be read ("error"), or is no string ("badtype"). manifest:
\* libraryfolders.vdf is no file ("missing"), cannot be opened ("unreadable"),
\* is gone when opened ("vanished"), does not parse ("malformed"), parses to
\* a 'libraryfolders' value that is no mapping ("badroot"), or parses to the
\* library entries libs ("parsed"). vdfError: the vdf module bundled with the
\* program defines the name VDFMalformedError.
SteamStates ==
    {s \in [reg : {"ok", "error", "badtype"}, vdfError : BOOLEAN,
            manifest : {"missing", "unreadable", "vanished", "malformed",
                        "badroot", "parsed"},
            libs : Manifests] :
        /\ s.reg # "ok" => s.manifest = "missing"
        /\ s.manifest # "parsed" => s.libs = <<>>}

\* Subclasses of OSError, which winreg.error is an alias of.
OSErrors == {"OSError", "FileNotFoundError", "PermissionError"}

Returned(r, rep) == [result |-> r, raised |-> FALSE, report |-> rep]

\* The except clauses, tried in order for the exception exc. Evaluating the
\* third clause's expression vdf.VDFMalformedError raises AttributeError when
\* the module does not define the name, and that error leaves the function;
\* every handled exception falls through to `return None`.
Handle(exc, defined) ==
    IF exc \in OSErrors THEN Returned(0, "registry")
    ELSE IF exc = "FileNotFoundError" THEN Returned(0, "notfound")
    ELSE IF ~defined THEN [result |-> 0, raised |-> TRUE, report |-> "none"]
    ELSE IF exc = "VDFMalformedError" THEN Returned(0, "malformed")
    ELSE Returned(0, "unknown")

\* The test of lines 33 and 35 on a library entry.
Matches(e) == e.isDict /\ e.hasPath /\ e.hasApps /\ e.appsIsDict /\ e.hasApp

RECURSIVE Scan_first_match_only(_, _, _)
\* Variant of Scan: the first matching entry ends the search.
Scan_first_match_only(libs, i, defined) ==
    IF i > Len(libs) THEN Returned(0, "none")
    ELSE IF ~Matches(libs[i]) THEN Scan_first_match_only(libs, i + 1, defined)
    ELSE IF ~libs[i].pathIsStr THEN Handle("TypeError", defined)
    ELSE IF libs[i].dirExists THEN Returned(i, "none")
    ELSE Returned(0, "none")

RECURSIVE Scan(_, _, _)
\* The loop over libraryfolders.values() from the i-th entry on: the result is
\* the index of the entry whose game directory is returned, 0 for None.
\* Path() of a 'path' value that is no string raises TypeError.
Scan(libs, i, defined) ==
    IF i > Len(libs) THEN Returned(0, "none")
    ELSE IF ~Matches(libs[i]) THEN Scan(libs, i + 1, defined)
    ELSE IF ~libs[i].pathIsStr THEN Handle("TypeError", defined)
    ELSE IF libs[i].dirExists THEN Returned(i, "none")
    ELSE Scan(libs, i + 1, defined)

\* The body of get_stardew_game_path.
Resolve(s) ==
    IF s.reg = "error" THEN Handle("OSError", s.vdfError)
    ELSE IF s.reg = "badtype" THEN Handle("TypeError", s.vdfError)
    ELSE IF s.manifest = "missing" THEN Returned(0, "warning")
    ELSE IF s.manifest = "unreadable" THEN Handle("PermissionError", s.vdfError)
    ELSE IF s.manifest = "vanished" THEN Handle("FileNotFoundError", s.vdfError)
    ELSE IF s.manifest = "malformed"
         THEN Handle(IF s.vdfError THEN "VDFMalformedError" ELSE "SyntaxError",
                     s.vdfError)
    ELSE IF s.manifest = "badroot" THEN Handle("AttributeError", s.vdfError)
    ELSE Scan(s.libs, 1, s.vdfError)

InitPath ==
    /\ SyncIdle
    /\ ZipIdle
    /\ MainIdle
    /\ DevIdle
    /\ steam \in SteamStates
    /\ steam0 = steam
    /\ found = NotFound

\* get_stardew_game_path: reads the registry, the manifest and the
\* directories; writes nothing.
get_stardew_game_path ==
    /\ found.pc = "idle"
    /\ LET r == Resolve(steam)
       IN found' = [pc |-> "returned", result |-> r.result, raised |-> r.raised,
                    report |-> r.report]
    /\ UNCHANGED <<steam, steam0, notPathVars>>

NextPath == get_stardew_game_path

SpecPath == InitPath /\ [][NextPath]_vars

\* ------------------------------------------------ claims: path resolver
\* The call has ended on a manifest that parsed into library entries.
ResolvedParsed == found.pc = "returned" /\ steam0.manifest = "parsed"

\* The library entry has an apps sub-mapping containing the identifier.
HasApp(e) == e.isDict /\ e.hasApps /\ e.appsIsDict /\ e.hasApp

\* The entry's computed game directory exists on disk.
HasGameDir(e) == e.isDict /\ e.hasPath /\ e.pathIsStr /\ e.dirExists

\* C7 (as claimed): for a parsed manifest, if some library entry has the
\* identifier in its apps sub-mapping and its computed game directory exists,
\* the directory of such an entry is returned; if no entry has the identifier,
\* None is returned.
C7_ReturnsInstalledLibrary ==
    ResolvedParsed =>
        LET libs == steam0.libs
        IN /\ (\E i \in DOMAIN libs : HasApp(libs[i]) /\ HasGameDir(libs[i]))
                 => /\ ~found.raised
                    /\ found.result \in DOMAIN libs
                    /\ HasApp(libs[found.result])
                    /\ HasGameDir(libs[found.result])
           /\ (\A i \in DOMAIN libs : ~HasApp(libs[i]))
                 => ~found.raised /\ found.result = 0

\* The first library entry, in manifest order, with the identifier in its
\* apps sub-mapping; 0 when there is none.
FirstWithApp(libs) ==
    IF \E i \in DOMAIN libs : HasApp(libs[i])
    THEN CHOOSE i \in DOMAIN libs :
            HasApp(libs[i]) /\ \A j \in 1..(i - 1) : ~HasApp(libs[j])
    ELSE 0

\* C8 (as claimed): the first entry in manifest order with the identifier is
\* the matched one; when the game directory computed from it does not exist,
\* None is returned.
C8_FirstMatchDecides ==
    ResolvedParsed =>
        LET libs == steam0.libs
            m == FirstWithApp(libs)
        IN m # 0 =>
              /\ found.result \in {0, m}
              /\ ~HasGameDir(libs[m]) => found.result = 0

\* The scan stops at the entry: it passes the test of the loop and either its
\* game directory exists or its 'path' value is no string.
Stops(e) == Matches(e) /\ (e.dirExists \/ ~e.pathIsStr)

\* C8 (amended): a matching entry whose game directory does not exist does
\* not end the search. The directory returned is that of the first entry, in
\* manifest order, that has a 'path', has the identifier in its apps
\* sub-mapping and whose game directory exists, when no earlier such entry
\* has a 'path' value that is no string; None is returned when no matching
\* entry has an existing game directory.
C8_FirstExistingMatchWins ==
    ResolvedParsed =>
        LET libs == steam0.libs
        IN /\ \A i \in DOMAIN libs :
                 (/\ Matches(libs[i]) /\ HasGameDir(libs[i])
                  /\ \A j \in 1..(i - 1) : ~Stops(libs[j]))
                     => ~found.raised /\ found.result = i
           /\ (\A i \in DOMAIN libs : ~(Matches(libs[i]) /\ HasGameDir(libs[i])))
                 => found.result = 0
           /\ (\A i \in DOMAIN libs : ~Stops(libs[i]))
                 => ~found.raised /\ found.result = 0 /\ found.report = "none"

\* C8 witness: the first entry with the identifier has no game directory on
\* disk, a later one has, and the later one's directory was returned.
C8_Witness ==
    /\ ResolvedParsed
    /\ Len(steam0.libs) >= 2
    /\ Matches(steam0.libs[1])
    /\ steam0.libs[1].pathIsStr
    /\ ~steam0.libs[1].dirExists
    /\ found.result = 2
    /\ ~found.raised

\* What the call met is a failure: the registry cannot be read, the manifest
\* is missing or cannot be read or parsed, or another error occurs.
PathFailure(s) ==
    \/ s.reg # "ok"
    \/ s.manifest # "parsed"
    \/ \E i \in DOMAIN s.libs :
          /\ Matches(s.libs[i]) /\ ~s.libs[i].pathIsStr
          /\ \A j \in 1..(i - 1) : ~Stops(s.libs[j])

\* C9 (as claimed): get_stardew_game_path never raises and changes nothing
\* it reads; every failure ends in None with the failure reported.
C9_NeverRaisesReadOnly ==
    found.pc = "returned" =>
        /\ ~found.raised
        /\ steam = steam0
        /\ PathFailure(steam0) => found.result = 0 /\ found.report # "none"

\* ========================================================== archive stager
\* An entry of an archive, by what its decoded name joined to the destination
\* resolves to and by info.is_dir(): a file or a directory under the name
\* `name` inside the destination ("file", "dir"), or a path outside the
\* destination ("escape"); the check of lines 159-164 treats every such path
\* alike, so one name stands for them.
ZipEntries ==
    [name : EntryNames, kind : {"file", "dir"}]
        \cup {[name |-> 1, kind |-> "escape"]}

\* zip_ref.infolist() of the archives passed: up to two entries.
Archives == {<<>>} \cup UNION {[1..n -> ZipEntries] : n \in 1..2}

\* The data of the files of an archive is abstracted to the archive's version.
Versions == 1..2

\* What the operating system refuses during one call: nothing ("none"), the
\* os.makedirs of the destination ("makedirs"), opening the archive ("open"),
\* or the creation of the at-th entry ("entry"); `partial`: the target file
\* was opened for writing before the failure and is left cut short, which
\* happens to file entries only.
NoZipFault == [stage |-> "none", at |-> 0, partial |-> FALSE]

ZipFaultsFor(tree, a) ==
    IF tree.exists THEN {NoZipFault}
    ELSE {NoZipFault,
          [stage |-> "makedirs", at |-> 0, partial |-> FALSE],
          [stage |-> "open", at |-> 0, partial |-> FALSE]}
         \cup {[stage |-> "entry", at |-> k, partial |-> FALSE] :
                  k \in {i \in DOMAIN a : a[i].kind # "escape"}}
         \cup {[stage |-> "entry", at |-> k, partial |-> TRUE] :
                  k \in {i \in DOMAIN a : a[i].kind = "file"}}

\* Variant of Ends: an error removes what the call created.
Ends_rolls_back(tree, err, k) ==
    [tree |-> IF err = "none" THEN tree
              ELSE [exists |-> FALSE, holds |-> [n \in EntryNames |-> -1]],
     out |-> {}, error |-> err, at |-> k]

\* What a call's loop ends with: the directory, the names created outside it,
\* the error raised ("none" when the loop ran to its end) and the position of
\* the entry it was raised at.
Ends(tree, err, k) == [tree |-> tree, out |-> {}, error |-> err, at |-> k]

RECURSIVE Extract_unchecked(_, _, _, _, _)
\* Variant of Extract: without the check of lines 159-164, the entry is
\* created where its name resolves to.
Extract_unchecked(tree, a, k, v, F) ==
    IF k > Len(a) THEN Ends(tree, "none", 0)
    ELSE LET e == a[k]
             failed == F.stage = "entry" /\ F.at = k
         IN IF e.kind = "escape"
            THEN LET r == Extract_unchecked(tree, a, k + 1, v, F)
                 IN [r EXCEPT !.out = @ \cup {e.name}]
            ELSE IF e.kind = "dir"
            THEN IF tree.holds[e.name] # -1
                 THEN Extract_unchecked(tree, a, k + 1, v, F)
                 ELSE IF failed THEN Ends(tree, "OSError", k)
                 ELSE Extract_unchecked([tree EXCEPT !.holds[e.name] = -2],
                                        a, k + 1, v, F)
            ELSE IF tree.holds[e.name] = -2 THEN Ends(tree, "OSError", k)
                 ELSE IF failed
                 THEN Ends(IF F.partial THEN [tree EXCEPT !.holds[e.name] = 0]
                           ELSE tree, "OSError", k)
                 ELSE Extract_unchecked([tree EXCEPT !.holds[e.name] = v],
                                        a, k + 1, v, F)

RECURSIVE Extract(_, _, _, _, _)
\* The loop over infolist() from the k-th entry on, writing into `tree`: the
\* zip-slip check raises ValueError before anything is created for the entry;
\* a directory entry is created unless something of that name exists; a file
\* entry is written over a file of that name, and open() fails on a directory.
Extract(tree, a, k, v, F) ==
    IF k > Len(a) THEN Ends(tree, "none", 0)
    ELSE LET e == a[k]
             failed == F.stage = "entry" /\ F.at = k
         IN IF e.kind = "escape" THEN Ends(tree, "ValueError", k)
            ELSE IF e.kind = "dir"
            THEN IF tree.holds[e.name] # -1 THEN Extract(tree, a, k + 1, v, F)
                 ELSE IF failed THEN Ends(tree, "OSError", k)
                 ELSE Extract([tree EXCEPT !.holds[e.name] = -2], a, k + 1, v, F)
            ELSE IF tree.holds[e.name] = -2 THEN Ends(tree, "OSError", k)
                 ELSE IF failed
                 THEN Ends(IF F.partial THEN [tree EXCEPT !.holds[e.name] = 0]
                           ELSE tree, "OSError", k)
                 ELSE Extract([tree EXCEPT !.holds[e.name] = v], a, k + 1, v, F)

\* The position of the first entry of the archive that resolves outside the
\* destination, 0 when there is none.
FirstEscape(a) ==
    IF \E k \in DOMAIN a : a[k].kind = "escape"
    THEN CHOOSE k \in DOMAIN a :
            a[k].kind = "escape" /\ \A j \in 1..(k - 1) : a[j].kind # "escape"
    ELSE 0

\* Variant of Stage: the destination is not checked to exist.
Stage_unchecked(tree, a, v, F) ==
    IF F.stage = "makedirs"
    THEN [tree |-> tree, out |-> {}, error |-> "OSError", at |-> 0,
          extracted |-> TRUE]
    ELSE LET made == [tree EXCEPT !.exists = TRUE]
         IN IF F.stage = "open"
            THEN [tree |-> made, out |-> {}, error |-> "OSError", at |-> 0,
                  extracted |-> TRUE]
            ELSE LET r == Extract(made, a, 1, v, F)
                 IN [tree |-> r.tree, out |-> r.out, error |-> r.error,
                     at |-> r.at, extracted |-> TRUE]

\* The body of expand_zip_file on the destination directory `tree`: an
\* existing destination is returned as it is; otherwise the directory is
\* created, the archive opened and its entries extracted in order; an error
\* is reported and raised again, what was written stays.
Stage(tree, a, v, F) ==
    IF tree.exists
    THEN [tree |-> tree, out |-> {}, error |-> "none", at |-> 0,
          extracted |-> FALSE]
    ELSE IF F.stage = "makedirs"
    THEN [tree |-> tree, out |-> {}, error |-> "OSError", at |-> 0,
          extracted |-> TRUE]
    ELSE LET made == [tree EXCEPT !.exists = TRUE]
         IN IF F.stage = "open"
            THEN [tree |-> made, out |-> {}, error |-> "OSError", at |-> 0,
                  extracted |-> TRUE]
            ELSE LET r == Extract(made, a, 1, v, F)
                 IN [tree |-> r.tree, out |-> r.out, error |-> r.error,
                     at |-> r.at, extracted |-> TRUE]

\* The directory holds the entries of the archive of version v that come
\* before the k-th: each directory entry as a directory, or as the file an
\* earlier entry of that name put there, and each file entry as the file.
HoldsBefore(tree, a, v, k) ==
    /\ tree.exists
    /\ \A j \in 1..(k - 1) :
          /\ a[j].kind = "dir" => tree.holds[a[j].name] \in {-2, v}
          /\ a[j].kind = "file" => tree.holds[a[j].name] = v

\* As HoldsBefore, for the entries of another name than the k-th; under the
\* name of the k-th entry there is what an earlier entry put there, or the
\* file cut short.
HoldsOthersBefore(tree, a, v, k) ==
    /\ tree.exists
    /\ \A j \in 1..(k - 1) :
          IF a[j].name = a[k].name /\ a[k].kind # "escape"
          THEN tree.holds[a[j].name] \in {-2, v, 0}
          ELSE /\ a[j].kind = "dir" => tree.holds[a[j].name] \in {-2, v}
               /\ a[j].kind = "file" => tree.holds[a[j].name] = v

\* The directory holds every entry of the archive of version v.
HoldsAll(tree, a, v) ==
    /\ tree.exists
    /\ \A k \in DOMAIN a :
          /\ a[k].kind # "escape"
          /\ a[k].kind = "dir" => tree.holds[a[k].name] = -2
          /\ a[k].kind = "file" => tree.holds[a[k].name] = v

\* A destination directory may be left over, empty, from an earlier run.
InitZip ==
    /\ SyncIdle
    /\ PathIdle
    /\ MainIdle
    /\ DevIdle
    /\ disk \in [DestNames -> {NoDir, [NoDir EXCEPT !.exists = TRUE]}]
    /\ outside = {}
    /\ zip = NoZip
    /\ returned = {}
    /\ decoded = NoName
    /\ archive = NoArchive

\* expand_zip_file(zip_path, destination_name) with the archive at zip_path
\* holding the entries a of version v at the time of the call.
expand_zip_file(d, a, v, F) ==
    /\ zip.n < MaxCalls
    /\ F \in ZipFaultsFor(disk[d], a)
    /\ LET r == Stage(disk[d], a, v, F)
       IN /\ disk' = [disk EXCEPT ![d] = r.tree]
          /\ outside' = outside \cup r.out
          /\ zip' = [n |-> zip.n + 1, dest |-> d, existed |-> disk[d].exists,
                     again |-> d \in returned,
                     raised |-> r.error # "none", error |-> r.error,
                     at |-> r.at, slip |-> FirstEscape(a),
                     result |-> IF r.error = "none" THEN d ELSE 0,
                     extracted |-> r.extracted,
                     changed |-> disk' # disk \/ outside' # outside,
                     complete |-> r.error = "none" /\ HoldsAll(r.tree, a, v),
                     prefix |-> r.at > 0 /\ HoldsBefore(r.tree, a, v, r.at),
                     others |-> r.at > 0
                                /\ HoldsOthersBefore(r.tree, a, v, r.at),
                     retry |-> zip.raised /\ zip.dest = d,
                     present |-> r.error = "none"
                                 /\ HoldsBefore(r.tree, a, v, Len(a) + 1)]
          /\ returned' = IF r.error = "none" THEN returned \cup {d} ELSE returned
    /\ UNCHANGED <<decoded, archive, notZipVars>>

NextZip ==
    \E d \in DestNames, a \in Archives, v \in Versions :
        \E F \in ZipFaultsFor(disk[d], a) : expand_zip_file(d, a, v, F)

SpecZip == InitZip /\ [][NextZip]_vars

\* ------------------------------------------------ claims: archive stager
\* C10: a call of expand_zip_file for a destination name an earlier call
\* returned a path for returns the same path, performs no extraction and
\* creates, changes or deletes nothing, whatever the archive holds by then.
C10_SecondCallChangesNothing ==
    (zip.n > 0 /\ zip.again) =>
        /\ ~zip.raised
        /\ zip.result = zip.dest
        /\ ~zip.extracted
        /\ ~zip.changed

\* C10 witness: the second call for a destination name has returned, for an
\* archive whose entries the directory does not hold.
C10_Witness ==
    /\ zip.n > 1
    /\ zip.again
    /\ zip.result = zip.dest
    /\ ~zip.complete

\* C11: an extraction that reaches an entry resolving outside the destination
\* ends there with ValueError, whatever the position of the entry (an
\* extraction that does not reach it failed at an earlier entry or before the
\* first), it returns no path, and no call ever creates a file or directory
\* outside the destination.
C11_ZipSlipAbortsNothingOutside ==
    /\ outside = {}
    /\ (zip.extracted /\ zip.slip # 0) =>
          /\ zip.raised
          /\ zip.result = 0
          /\ \/ zip.error = "ValueError" /\ zip.at = zip.slip
             \/ zip.error = "OSError" /\ zip.at < zip.slip

\* C11 witness: an extraction was aborted with ValueError at the second entry
\* of its archive, after the first entry was written into the destination.
C11_Witness ==
    /\ zip.extracted
    /\ zip.slip = 2
    /\ zip.error = "ValueError"
    /\ \E n \in EntryNames : disk[zip.dest].holds[n] # -1

\* ======================================================= end-user session
\* What a step finds of the archive it stages: the archive is there and
\* extracts ("ok"), no archive matches (find_zip_file raises, "missing"), the
\* extraction fails after the destination was created ("bad") or before
\* ("nomake").
ArchStates == {"ok", "missing", "bad", "nomake"}

\* find_zip_file followed by expand_zip_file for a temporary directory that
\* exists or not: whether a path was returned, and whether the directory
\* exists afterwards. An existing directory is returned without extraction.
Staged(exists, arch) ==
    IF arch = "missing" THEN [ok |-> FALSE, exists |-> exists]
    ELSE IF exists THEN [ok |-> TRUE, exists |-> TRUE]
    ELSE IF arch = "ok" THEN [ok |-> TRUE, exists |-> TRUE]
    ELSE IF arch = "bad" THEN [ok |-> FALSE, exists |-> TRUE]
    ELSE [ok |-> FALSE, exists |-> FALSE]

\* How the wizard automation of install_smapi ends: the installer executable
\* is not in the extracted tree ("noexe"), ShellExecute raises ("launch"),
\* connecting to the window fails ("attach"), a type_keys call fails ("keys"),
\* the window is still visible after the timeout ("timeout"), or all goes
\* through ("ok").
WizardEnds == {"ok", "noexe", "launch", "attach", "keys", "timeout"}
WizardFailures == {"attach", "keys", "timeout"}

\* The step `name` begins: it is added to the trace of the session.
Began(name) ==
    IF sess.trace # <<>> /\ sess.trace[Len(sess.trace)] = name THEN sess.trace
    ELSE Append(sess.trace, name)

InitMain ==
    /\ SyncIdle
    /\ PathIdle
    /\ ZipIdle
    /\ DevIdle
    /\ sess = NoSession
    /\ tmp \in [TempDirs -> BOOLEAN]
    /\ desk \in [stardrop : BOOLEAN, shortcut : {"none", "old"}]

\* main, lines 447-458: the game path is resolved (g: a path, None, or the
\* resolver raises) and the Mods directory made (mk: mkdir succeeds); without
\* them the exception raised goes to the handler at 519 and on to the cleanup.
main_resolve(g, mk) ==
    /\ sess.pc = "start"
    /\ sess' = [sess EXCEPT
          !.trace = Began("ResolvePath"),
          !.game = IF g = "present" THEN "present" ELSE "absent",
          !.shortcut0 = desk.shortcut,
          !.stardrop0 = desk.stardrop,
          !.escaped = IF g = "present" /\ mk THEN @ ELSE "ResolvePath",
          !.pc = IF g = "present" /\ mk THEN "smapi" ELSE "cleanup"]
    /\ UNCHANGED <<tmp, desk, notMainVars>>

\* Variant of SmapiStep: a failure of the automation leaves main's try block.
SmapiStep_escapes(has, arch, wiz) ==
    IF has THEN [exists |-> tmp["SMAPI_Installer"], smapi |-> "skipped",
                 launched |-> 0, staged |-> TRUE, escapes |-> FALSE]
    ELSE LET st == Staged(tmp["SMAPI_Installer"], arch)
         IN IF ~st.ok
            THEN [exists |-> st.exists, smapi |-> "failure", launched |-> 0,
                  staged |-> FALSE, escapes |-> FALSE]
            ELSE [exists |-> st.exists,
                  smapi |-> IF wiz = "ok" THEN "success" ELSE "failure",
                  launched |-> IF wiz \in {"noexe", "launch"} THEN 0 ELSE 1,
                  staged |-> TRUE, escapes |-> wiz \in WizardFailures]

\* install_smapi as main calls it (lines 460-468): an installed SMAPI is left
\* alone; otherwise the installer is staged, launched once and driven; every
\* exception is reported by install_smapi, raised again and caught by main,
\* which goes on.
SmapiStep(has, arch, wiz) ==
    IF has THEN [exists |-> tmp["SMAPI_Installer"], smapi |-> "skipped",
                 launched |-> 0, staged |-> TRUE, escapes |-> FALSE]
    ELSE LET st == Staged(tmp["SMAPI_Installer"], arch)
         IN IF ~st.ok
            THEN [exists |-> st.exists, smapi |-> "failure", launched |-> 0,
                  staged |-> FALSE, escapes |-> FALSE]
            ELSE [exists |-> st.exists,
                  smapi |-> IF wiz = "ok" THEN "success" ELSE "failure",
                  launched |-> IF wiz \in {"noexe", "launch"} THEN 0 ELSE 1,
                  staged |-> TRUE, escapes |-> FALSE]

main_install_smapi(has, arch, wiz) ==
    /\ sess.pc = "smapi"
    /\ LET r == SmapiStep(has, arch, wiz)
       IN /\ tmp' = [tmp EXCEPT !["SMAPI_Installer"] = r.exists]
          /\ sess' = [sess EXCEPT
                !.trace = Began("InstallAPI"),
                !.smapi = r.smapi,
                !.installed_smapi = r.smapi = "success",
                !.launched = @ + r.launched,
                !.wizard = IF has \/ ~r.staged THEN "none" ELSE wiz,
                !.stager = IF r.staged THEN @ ELSE @ \cup {"SMAPI_Installer"},
                !.escaped = IF r.escapes THEN "InstallAPI" ELSE @,
                !.pc = IF r.escapes THEN "cleanup" ELSE "menu"]
    /\ UNCHANGED <<desk, notMainVars>>

\* What the user types at the prompt of main and at the prompt of
\* show_mod_menu ("eof": input() raises EOFError).
MenuChoices == {"1", "2", "3", "invalid", "eof"}
SubChoices == {"all", "one", "out_of_range", "nan", "eof"}

\* One round of the menu loop of main (lines 473-497). "1" and "2" call
\* show_mod_menu, which stages the Mods archive (lines 255-257, outside every
\* try block) and asks which mod to handle; what it raises leaves the try
\* block of main. Any other answer than "1", "2", "3" asks again.
MenuStep(choice, arch, sub) ==
    IF choice = "invalid"
    THEN [pc |-> "menu", choice |-> "none", exists |-> tmp["Mods"],
          staged |-> TRUE, escapes |-> FALSE]
    ELSE IF choice = "eof"
    THEN [pc |-> "cleanup", choice |-> "none", exists |-> tmp["Mods"],
          staged |-> TRUE, escapes |-> TRUE]
    ELSE IF choice = "3"
    THEN [pc |-> "stardrop", choice |-> "Skip", exists |-> tmp["Mods"],
          staged |-> TRUE, escapes |-> FALSE]
    ELSE LET st == Staged(tmp["Mods"], arch)
             out == ~st.ok \/ sub = "eof"
         IN [pc |-> IF out THEN "cleanup" ELSE "stardrop",
             choice |-> IF choice = "1" THEN "Copy" ELSE "Remove",
             exists |-> st.exists, staged |-> st.ok, escapes |-> out]

main_mod_menu(choice, arch, sub) ==
    /\ sess.pc = "menu"
    /\ choice = "invalid" => sess.invalid < MaxInvalid
    /\ LET r == MenuStep(choice, arch, sub)
       IN /\ tmp' = [tmp EXCEPT !["Mods"] = r.exists]
          /\ sess' = [sess EXCEPT
                !.trace = Began("ModMenu"),
                !.invalid = IF choice = "invalid" THEN @ + 1 ELSE @,
                !.choice = r.choice,
                !.stager = IF r.staged THEN @ ELSE @ \cup {"Mods"},
                !.escaped = IF r.escapes THEN "ModMenu" ELSE @,
                !.pc = r.pc]
    /\ UNCHANGED <<desk, notMainVars>>

\* The desktop shortcut after lines 417-430 of install_stardrop, when they
\* are reached: it is created when none exists (sc: the creation succeeds).
Shortcut_overwrites(cur, reached, sc) ==
    IF reached /\ sc THEN "new" ELSE cur

Shortcut(cur, reached, sc) ==
    IF reached /\ cur = "none" /\ sc THEN "new" ELSE cur

\* install_stardrop as main calls it (lines 500-506). An installed companion
\* app is left alone; otherwise its archive is staged, copied beside the
\* game's library (cp: the copy succeeds) and the extracted directory removed
\* (rm: the removal succeeds). A failure of staging or copying is caught at
\* line 432 and skips the rest, the shortcut included.
StardropStep(arch, cp, rm, sc) ==
    IF desk.stardrop
    THEN [stardrop |-> TRUE, exists |-> tmp["Stardrop"], staged |-> TRUE,
          shortcut |-> Shortcut(desk.shortcut, TRUE, sc)]
    ELSE LET st == Staged(tmp["Stardrop"], arch)
         IN IF ~st.ok
            THEN [stardrop |-> FALSE, exists |-> st.exists, staged |-> FALSE,
                  shortcut |-> Shortcut(desk.shortcut, FALSE, sc)]
            ELSE IF ~cp
            THEN [stardrop |-> TRUE, exists |-> st.exists, staged |-> TRUE,
                  shortcut |-> Shortcut(desk.shortcut, FALSE, sc)]
            ELSE [stardrop |-> TRUE, exists |-> ~rm, staged |-> TRUE,
                  shortcut |-> Shortcut(desk.shortcut, TRUE, sc)]

main_install_stardrop(arch, cp, rm, sc) ==
    /\ sess.pc = "stardrop"
    /\ LET r == StardropStep(arch, cp, rm, sc)
       IN /\ tmp' = [tmp EXCEPT !["Stardrop"] = r.exists]
          /\ desk' = [stardrop |-> r.stardrop, shortcut |-> r.shortcut]
          /\ sess' = [sess EXCEPT
                !.trace = Began("InstallCompanionApp"),
                !.stager = IF r.staged THEN @ ELSE @ \cup {"Stardrop"},
                !.pc = "cleanup"]
    /\ UNCHANGED notMainVars

\* Variant of CleanupStep: the Mods directory is not looked at.
CleanupStep_forgets(D) ==
    [tmp |-> [d \in TempDirs |-> tmp[d] /\ (d \in D \/ d = "Mods")],
     attempted |-> {d \in TempDirs : tmp[d]} \ {"Mods"},
     escapes |-> FALSE]

\* Variant of CleanupStep: a deletion that fails raises out of main.
CleanupStep_raises(D) ==
    [tmp |-> [d \in TempDirs |-> tmp[d] /\ d \in D],
     attempted |-> {d \in TempDirs : tmp[d]},
     escapes |-> D # {}]

\* The finally block of main, lines 523-541: rmtree_longpath is called for
\* each temporary directory that exists; D are the directories whose removal
\* fails, which rmtree_longpath reports without raising.
CleanupStep(D) ==
    [tmp |-> [d \in TempDirs |-> tmp[d] /\ d \in D],
     attempted |-> {d \in TempDirs : tmp[d]},
     escapes |-> FALSE]

main_cleanup(D) ==
    /\ sess.pc = "cleanup"
    /\ D \subseteq {d \in TempDirs : tmp[d]}
    /\ LET r == CleanupStep(D)
       IN /\ tmp' = r.tmp
          /\ sess' = [sess EXCEPT
                !.trace = Began("Cleanup"),
                !.attempted = r.attempted,
                !.delFailed = D,
                !.exit = IF r.escapes THEN "error" ELSE @,
                !.pc = IF r.escapes THEN "exited" ELSE "pause"]
    /\ UNCHANGED <<desk, notMainVars>>

\* The end of the finally block, lines 543-545: the prompt, input() and
\* sys.exit(0); input() raising EOFError ends the process as well.
main_pause(eof) ==
    /\ sess.pc = "pause"
    /\ sess' = [sess EXCEPT
          !.trace = Began("End"),
          !.paused = TRUE,
          !.exit = IF eof THEN "error" ELSE "0",
          !.pc = "exited"]
    /\ UNCHANGED <<tmp, desk, notMainVars>>

NextMain ==
    \/ \E g \in {"present", "absent", "raises"} :
          \E mk \in (IF g = "present" THEN BOOLEAN ELSE {TRUE}) : main_resolve(g, mk)
    \/ \E has \in BOOLEAN, arch \in ArchStates, wiz \in WizardEnds :
          main_install_smapi(has, arch, wiz)
    \/ \E choice \in MenuChoices, arch \in ArchStates, sub \in SubChoices :
          main_mod_menu(choice, arch, sub)
    \/ \E arch \in ArchStates, cp \in BOOLEAN, rm \in BOOLEAN, sc \in BOOLEAN :
          main_install_stardrop(arch, cp, rm, sc)
    \/ \E D \in SUBSET TempDirs : main_cleanup(D)
    \/ \E eof \in BOOLEAN : main_pause(eof)

SpecMain == InitMain /\ [][NextMain]_vars

\* The user answers every prompt and every wait of the automation times out:
\* a step that can be taken is taken.
FairMain == SpecMain /\ WF_vars(NextMain)

\* ------------------------------------------------ claims: end-user session
StepRank(n) ==
    CASE n = "ResolvePath" -> 1
      [] n = "InstallAPI" -> 2
      [] n = "ModMenu" -> 3
      [] n = "InstallCompanionApp" -> 4
      [] n = "Cleanup" -> 5
      [] n = "End" -> 6

\* No step of the trace runs twice or out of order.
InOrder(t) == \A i, j \in DOMAIN t : i < j => StepRank(t[i]) < StepRank(t[j])

FullSession ==
    <<"ResolvePath", "InstallAPI", "ModMenu", "InstallCompanionApp", "Cleanup",
      "End">>

\* C12 (as claimed): the steps of a session run in the fixed order, none
\* twice; a session with a game path runs them all, with exactly one of Copy,
\* Remove and Skip chosen at the mod menu; a session without a game path runs
\* none of InstallAPI, ModMenu and InstallCompanionApp.
C12_FixedStepOrder ==
    /\ InOrder(sess.trace)
    /\ sess.game = "absent" =>
          \A i \in DOMAIN sess.trace :
              sess.trace[i] \in {"ResolvePath", "Cleanup", "End"}
    /\ (sess.pc = "exited" /\ sess.game = "present") =>
          /\ sess.trace = FullSession
          /\ sess.choice \in {"Copy", "Remove", "Skip"}

\* The step ran in the session.
Ran(name) == \E i \in DOMAIN sess.trace : sess.trace[i] = name

\* C13 (as claimed): when the staging of the archive of a step fails (the
\* archive is missing or its extraction fails), only that step is given up:
\* the later steps of the session run, unless something else stops it.
C13_StagerFailureAbortsOneStep ==
    sess.pc = "exited" =>
        /\ "SMAPI_Installer" \in sess.stager =>
              /\ Ran("ModMenu")
              /\ sess.escaped = "none" => Ran("InstallCompanionApp")
        /\ "Mods" \in sess.stager => Ran("InstallCompanionApp")
        /\ sess.stager # {} => Ran("Cleanup")

\* C14: every session ends with the cleanup; a temporary directory that
\* exists when the process exits is one the cleanup tried to remove and could
\* not, so when no deletion fails none of the three exists at exit.
C14_CleanupOnEveryPath ==
    sess.pc = "exited" =>
        /\ Ran("Cleanup")
        /\ \A d \in TempDirs :
              tmp[d] => d \in sess.attempted /\ d \in sess.delFailed

\* C14 witness: a session a step of which raised has exited; the cleanup
\* found temporary directories, no deletion failed and none is left.
C14_Witness ==
    /\ sess.pc = "exited"
    /\ sess.escaped # "none"
    /\ sess.attempted # {}
    /\ sess.delFailed = {}
    /\ \A d \in TempDirs : ~tmp[d]

\* C15: every session eventually pauses for the user's acknowledgment and
\* then exits, whatever was raised in a step and whatever deletion failed.
C15_AlwaysPausesThenExits == <>(sess.paused /\ sess.pc = "exited")

\* C15 witness: a session has paused and exited after a step raised out of
\* main's try block and the removal of a temporary directory failed.
C15_Witness ==
    /\ sess.pc = "exited"
    /\ sess.paused
    /\ sess.escaped # "none"
    /\ sess.delFailed # {}

\* C19: the desktop shortcut is written only when none exists: a shortcut
\* that exists before the session is the same afterwards, whether or not the
\* companion app is installed by the session.
C19_ShortcutOnlyIfAbsent ==
    sess.pc # "start" =>
        /\ sess.shortcut0 = "old" => desk.shortcut = "old"
        /\ desk.shortcut = "new" => sess.shortcut0 = "none"

\* C19 witness: install_stardrop installed the companion app in a session
\* that began with a shortcut on the desktop.
C19_Witness ==
    /\ Ran("InstallCompanionApp")
    /\ sess.shortcut0 = "old"
    /\ ~sess.stardrop0
    /\ desk.stardrop
    /\ "Stardrop" \notin sess.stager

\* C20: when attaching to the installer's window, a keystroke or the wait for
\* the window to close fails, the step is reported as a failure, the
\* installer has been launched once and not again, and the session goes on
\* with the mod menu.
C20_WizardFailureNoRetry ==
    sess.wizard \in WizardFailures =>
        /\ sess.smapi = "failure"
        /\ ~sess.installed_smapi
        /\ sess.launched = 1
        /\ sess.pc = "menu" \/ Ran("ModMenu")

\* C20 witness: the wait for the installer's window timed out and the user
\* has made a choice at the mod menu.
C20_Witness ==
    /\ sess.wizard = "timeout"
    /\ Ran("ModMenu")
    /\ sess.choice # "none"

\* ========================================================== developer tool
\* ------------------------------------------------------ release-info cache
\* The seconds a cache file stays valid.
CacheTTL == 3600

\* Bound: the get_latest_zip_info calls of one run.
MaxFetches == 2

\* Bound: the times the clock is let advance between calls.
MaxTicks == 1

\* The release documents the upstream API may answer with.
Releases == [tag : 1..2, asset : BOOLEAN]

\* The document of a cache file left by an earlier run.
Cached == [tag |-> 1, asset |-> TRUE]

\* time.time() - st_mtime of a cache file left by an earlier run: around the
\* limit of validity.
AgePoints == {0, CacheTTL - 1, CacheTTL, CacheTTL + 1}

\* What requests.get(api_url) does: it answers with status 200 and a release
\* document, answers with another status, or raises.
Responses ==
    [kind : {"response"}, status : {200}, data : Releases]
        \cup {[kind |-> "response", status |-> 403, data |-> NoRelease],
              [kind |-> "error", status |-> 0, data |-> NoRelease]}

\* Variant of is_cache_valid: a file aged exactly the limit is still valid.
is_cache_valid_inclusive(file) == file.exists /\ file.age <= CacheTTL

\* is_cache_valid(repo_name) on the cache file of the project.
is_cache_valid(file) == file.exists /\ file.age < CacheTTL

\* The first branch of get_latest_zip_info on the cache file of the project:
\* a valid file is loaded; otherwise one request is sent, and only an answer
\* of status 200 is saved (save_cache) and used; another status ends the call
\* with None, an error of the request leaves the call as an exception.
Fetch(file, resp) ==
    IF is_cache_valid(file)
    THEN [file |-> file, calls |-> 0, status |-> 0, error |-> "none",
          data |-> file.data]
    ELSE IF resp.kind = "error"
    THEN [file |-> file, calls |-> 1, status |-> 0, error |-> "raised",
          data |-> NoRelease]
    ELSE IF resp.status = 200
    THEN [file |-> [exists |-> TRUE, age |-> 0, data |-> resp.data],
          calls |-> 1, status |-> 200, error |-> "none", data |-> resp.data]
    ELSE [file |-> file, calls |-> 1, status |-> resp.status, error |-> "None",
          data |-> NoRelease]

\* What get_latest_zip_info hands back for the outcome f of Fetch: the
\* exception, None, or the record of version, zip_url and target_zip_name.
InfoResult(f) == IF f.error = "none" THEN "info" ELSE f.error

InitCache ==
    /\ SyncIdle
    /\ PathIdle
    /\ ZipIdle
    /\ MainIdle
    /\ cache \in [Repos -> {NoCacheFile}
                     \cup {[exists |-> TRUE, age |-> a, data |-> Cached] :
                              a \in AgePoints}]
    /\ info = NoInfo
    /\ ver = NoVersion
    /\ tool = NoTool

\* get_latest_zip_info(repo_name, api_url) with the upstream API answering
\* resp if it is asked.
get_latest_zip_info(r, resp) ==
    /\ info.n < MaxFetches
    /\ LET f == Fetch(cache[r], resp)
       IN /\ cache' = [cache EXCEPT ![r] = f.file]
          /\ info' = [n |-> info.n + 1, repo |-> r,
                      existed |-> cache[r].exists, age |-> cache[r].age,
                      before |-> cache[r].data,
                      calls |-> f.calls, status |-> f.status,
                      sent |-> resp.data,
                      rewritten |-> f.file = [exists |-> TRUE, age |-> 0,
                                              data |-> resp.data]
                                    /\ f.calls = 1,
                      kept |-> f.file = cache[r],
                      result |-> InfoResult(f), data |-> f.data,
                      ticks |-> info.ticks]
    /\ UNCHANGED <<ver, tool, notDevVars>>

\* Time passes between two calls: every cache file grows older by dt seconds.
tick(dt) ==
    /\ info.ticks < MaxTicks
    /\ cache' = [r \in Repos |->
                    IF cache[r].exists
                    THEN [cache[r] EXCEPT !.age = @ + dt]
                    ELSE cache[r]]
    /\ info' = [info EXCEPT !.ticks = @ + 1]
    /\ UNCHANGED <<ver, tool, notDevVars>>

NextCache ==
    \/ \E r \in Repos, resp \in Responses : get_latest_zip_info(r, resp)
    \/ \E dt \in {1, CacheTTL - 1, CacheTTL} : tick(dt)

SpecCache == InitCache /\ [][NextCache]_vars

\* ------------------------------------------- claims: release-info cache
\* The last get_latest_zip_info call found a cache file younger than the
\* limit.
FoundFresh == info.existed /\ info.age < CacheTTL

\* C16 (as claimed): a cache file younger than 3600 seconds is used as it is
\* without any network call; one aged 3600 seconds or more, or missing,
\* triggers exactly one network call and the cache file is rewritten with the
\* response.
C16_StaleCacheIsRewritten ==
    info.n > 0 =>
        /\ FoundFresh =>
              /\ info.calls = 0
              /\ info.kept
              /\ info.result = "info"
              /\ info.data = info.before
        /\ ~FoundFresh =>
              /\ info.calls = 1
              /\ info.rewritten

\* C16 (amended): a cache file younger than 3600 seconds is used as it is
\* without any network call; one aged 3600 seconds or more, or missing,
\* triggers exactly one network call. The cache file is rewritten, with the
\* response, only when the response has status 200, and the call then works
\* on that response; on any other status the call returns None, when the
\* request raises the error leaves the call, and in both cases the cache file
\* stays as it was (missing or expired).
C16_OnlyStatus200IsCached ==
    info.n > 0 =>
        /\ FoundFresh =>
              /\ info.calls = 0
              /\ info.kept
              /\ info.result = "info"
              /\ info.data = info.before
        /\ ~FoundFresh =>
              /\ info.calls = 1
              /\ info.status = 200 =>
                    /\ info.rewritten
                    /\ info.result = "info"
                    /\ info.data = info.sent
              /\ info.status # 200 =>
                    /\ info.kept
                    /\ ~info.rewritten
                    /\ info.result \in {"None", "raised"}

\* C16 witness: a call found a cache file aged exactly 3600 seconds holding
\* another release than the one the API answers with, made its one request
\* and rewrote the file with the answer.
C16_Witness ==
    /\ info.n > 0
    /\ info.existed
    /\ info.age = CacheTTL
    /\ info.calls = 1
    /\ info.status = 200
    /\ info.rewritten
    /\ info.sent # info.before
    /\ cache[info.repo].data = info.sent

\* A call left an expired cache file as it was: the API answered with
\* another status than 200.
C16_RefusedWitness ==
    /\ info.n > 0
    /\ info.existed
    /\ info.age >= CacheTTL
    /\ info.calls = 1
    /\ info.status = 403
    /\ info.kept
    /\ info.result = "None"

\* ------------------------------------------------------- project version
\* Texts are sequences of code points, so that strip, startswith, split and
\* the order of names are computed as the code computes them.

\* Bound: the longest text of the VERSION file and of the --version argument.
MaxText == 2

\* The texts over the code points `chars` of at most n of them.
Texts(chars, n) == UNION {[1..k -> chars] : k \in 0..n}

\* "SVModsInstall_v"
Prefix == <<83, 86, 77, 111, 100, 115, 73, 110, 115, 116, 97, 108, 108, 95, 118>>

\* "_v"
Separator == <<95, 118>>

\* str.isspace for the code points used: space and line feed.
Whitespace == {32, 10}

RECURSIVE lstrip(_)
lstrip(t) == IF t # <<>> /\ Head(t) \in Whitespace THEN lstrip(Tail(t)) ELSE t

RECURSIVE rstrip(_)
rstrip(t) ==
    IF t # <<>> /\ t[Len(t)] \in Whitespace
    THEN rstrip(SubSeq(t, 1, Len(t) - 1))
    ELSE t

\* str.strip()
strip(t) == rstrip(lstrip(t))

\* str.startswith(p)
startswith(t, p) == Len(t) >= Len(p) /\ SubSeq(t, 1, Len(p)) = p

\* The positions of t where the separator begins.
Cuts(t) == {i \in 1..(Len(t) - 1) : SubSeq(t, i, i + 1) = Separator}

\* t.split("_v")[-1]: what follows the last separator, t itself without one.
LastPiece(t) ==
    IF Cuts(t) = {} THEN t
    ELSE LET i == CHOOSE c \in Cuts(t) : \A d \in Cuts(t) : d <= c
         IN SubSeq(t, i + 2, Len(t))

RECURSIVE Before(_, _)
\* The order of sorted() on the names of one directory: a < b by code points.
Before(a, b) ==
    IF b = <<>> THEN FALSE
    ELSE IF a = <<>> THEN TRUE
    ELSE IF Head(a) # Head(b) THEN Head(a) < Head(b)
    ELSE Before(Tail(a), Tail(b))

\* sorted(names, reverse=True)[0]
Greatest(names) == CHOOSE a \in names : \A b \in names \ {a} : Before(b, a)

\* The VERSION file beside the script: missing, not readable as text, or read
\* with its text.
VersionFiles ==
    {[state |-> "missing", text |-> <<>>], [state |-> "unreadable", text |-> <<>>]}
        \cup [state : {"read"}, text : Texts({32, 49}, MaxText)]

\* args.version: None without the option, else its text.
Arguments ==
    {[given |-> FALSE, text |-> <<>>]}
        \cup [given : {TRUE}, text : Texts({50}, MaxText)]

\* The names found in the release directory: release names with a tail over
\* "1", "_", "v", and a name of another kind ("x_v1").
EntryTexts ==
    {Prefix \o t : t \in Texts({49, 95, 118}, 2)} \cup {<<120, 95, 118, 49>>}

\* An entry of the release directory: its name, and whether it is a directory.
ReleaseEntries == [name : EntryTexts, isDir : BOOLEAN]

\* What iterdir() yields: no, one or two entries of different names.
Listings ==
    {{}} \cup {{p[1], p[2]} :
                 p \in {q \in ReleaseEntries \X ReleaseEntries :
                           q[1].name = q[2].name => q[1] = q[2]}}

\* The release directory: missing, not listable, or listed with at most two
\* entries, each a directory or a file.
ReleaseDirs ==
    {[state |-> "missing", entries |-> {}], [state |-> "unlistable", entries |-> {}]}
        \cup {[state |-> "listed", entries |-> E] : E \in Listings}

\* datetime.now().strftime("%Y%m%d"), here "20261103".
Today == <<50, 48, 50, 54, 49, 49, 48, 51>>

\* The names the scan of the release directory keeps.
ReleaseNames(release) ==
    {e.name : e \in {x \in release.entries : x.isDir /\ startswith(x.name, Prefix)}}

\* The third source of get_project_version: the version of the greatest
\* release name, whatever it is; nothing when the directory is missing, its
\* listing fails or it holds no release directory.
Infer(release) ==
    IF release.state # "listed" \/ ReleaseNames(release) = {}
    THEN [found |-> FALSE, value |-> <<>>]
    ELSE [found |-> TRUE, value |-> LastPiece(Greatest(ReleaseNames(release)))]

\* The body of get_project_version.
Version(file, arg, release) ==
    IF file.state = "read" /\ strip(file.text) # <<>>
    THEN [source |-> "file", value |-> strip(file.text)]
    ELSE IF arg.given /\ arg.text # <<>>
    THEN [source |-> "argument", value |-> arg.text]
    ELSE IF Infer(release).found
    THEN [source |-> "release", value |-> Infer(release).value]
    ELSE [source |-> "date", value |-> Today]

InitVersion ==
    /\ SyncIdle
    /\ PathIdle
    /\ ZipIdle
    /\ MainIdle
    /\ cache = [r \in Repos |-> NoCacheFile]
    /\ info = NoInfo
    /\ tool = NoTool
    /\ ver \in [pc : {"called"}, file : VersionFiles, arg : Arguments,
                release : ReleaseDirs, source : {"none"}, value : {<<>>}]

\* get_project_version(args_version, script_dir, release_dir)
get_project_version ==
    /\ ver.pc = "called"
    /\ LET r == Version(ver.file, ver.arg, ver.release)
       IN ver' = [ver EXCEPT !.pc = "returned", !.source = r.source,
                             !.value = r.value]
    /\ UNCHANGED <<cache, info, tool, notDevVars>>

NextVersion == get_project_version

SpecVersion == InitVersion /\ [][NextVersion]_vars

\* --------------------------------------------- claims: project version
\* The source the priority order of the claim selects: the VERSION file when
\* it was read and is not blank, else the argument when given and not empty,
\* else the greatest-named release directory when there is one, else the date.
ClaimedSource(v) ==
    IF v.file.state = "read" /\ strip(v.file.text) # <<>> THEN "file"
    ELSE IF v.arg.given /\ v.arg.text # <<>> THEN "argument"
    ELSE IF v.release.state = "listed" /\ ReleaseNames(v.release) # {}
    THEN "release"
    ELSE "date"

\* The value of a source.
ClaimedValue(v, s) ==
    IF s = "file" THEN strip(v.file.text)
    ELSE IF s = "argument" THEN v.arg.text
    ELSE IF s = "release" THEN LastPiece(Greatest(ReleaseNames(v.release)))
    ELSE Today

\* C17 (as claimed): get_project_version returns the value of the source of
\* highest priority that is available (VERSION file, --version argument,
\* greatest-named SVModsInstall_v* directory, current date), and the value
\* returned is a non-empty string.
C17_HighestPrioritySourceNonEmpty ==
    ver.pc = "returned" =>
        /\ ver.source = ClaimedSource(ver)
        /\ ver.value = ClaimedValue(ver, ver.source)
        /\ ver.value # <<>>

\* The part of C17 that holds: the source is the one the order selects and
\* the value is the value of that source.
C17_SourceInPriorityOrder ==
    ver.pc = "returned" =>
        /\ ver.source = ClaimedSource(ver)
        /\ ver.value = ClaimedValue(ver, ver.source)

\* The call came down to the release directory and the greatest release name
\* ends with the separator.
C17_EmptyVersionReturned ==
    /\ ver.pc = "returned"
    /\ ver.source = "release"
    /\ ver.value = <<>>

\* ------------------------------------------------ commands of project.py
\* Bound: the times the developer tool is run.
MaxRuns == 2

\* REPO_API_URLS.items() in the order of the dictionary.
RepoOrder == <<"SMAPI", "Stardrop">>

\* BUILD_ITEMS in the order of the list.
BuildOrder == <<"SVModInstaller", "SVPathFinder">>

\* What the API answers to the update command: as Responses, with one tag.
ToolResponses == {p \in Responses : p.data.tag \in {0, 1}}

\* How download_zip ends: the archive is written ("ok"); the request fails
\* before the file is opened ("refused"); the stream breaks with a
\* RequestException after the file was opened ("interrupted"); opening or
\* writing the file fails and the file is unlinked ("write_error") or the
\* unlink fails too ("write_error_kept").
Downloads == {"ok", "refused", "interrupted", "write_error", "write_error_kept"}

\* The file of the asset in the resource directory after download_zip.
Download(cur, dl) ==
    IF dl = "ok" THEN "complete"
    ELSE IF dl = "refused" THEN cur
    ELSE IF dl = "write_error" THEN "none"
    ELSE "partial"

RECURSIVE Update(_, _, _, _)
\* The loop of the update command from the k-th project on: an error raised
\* by get_latest_zip_info leaves the loop and main; a project without info or
\* without a matching asset is reported and skipped; otherwise download_zip
\* is called and the project is counted, however download_zip ends.
Update(st, k, resp, dl) ==
    IF k > Len(RepoOrder) \/ st.raised THEN st
    ELSE LET r == RepoOrder[k]
             f == Fetch(st.cache[r], resp[r])
             c == [st.cache EXCEPT ![r] = f.file]
         IN IF f.error = "raised"
            THEN [st EXCEPT !.cache = c, !.raised = TRUE, !.failure = "fetch"]
            ELSE IF f.error = "None" \/ ~f.data.asset
            THEN Update([st EXCEPT !.cache = c, !.failure = "fetch",
                                   !.reported = TRUE], k + 1, resp, dl)
            ELSE Update([st EXCEPT !.cache = c,
                                   !.res[r] = Download(@, dl[r]),
                                   !.count = @ + 1,
                                   !.tried = @ \cup {r},
                                   !.done = IF dl[r] = "ok" THEN @ \cup {r}
                                            ELSE @,
                                   !.failure = IF dl[r] = "ok" THEN @ ELSE "download",
                                   !.reported = @ \/ dl[r] # "ok"],
                        k + 1, resp, dl)

\* clean_build_dirs on the dist directory: removed, or left when rmtree fails.
Clean(dist, clean) == IF clean THEN [x \in Exes |-> 0] ELSE dist

RECURSIVE Build(_, _, _, _, _)
\* all(build_exe(...) for ... in BUILD_ITEMS if py_file in targets) from the
\* k-th item on: the first target that fails to build ends the sequence; a
\* built target is the executable number id of the dist directory.
Build(dist, k, targets, ok, id) ==
    IF k > Len(BuildOrder) THEN [dist |-> dist, success |-> TRUE]
    ELSE LET x == BuildOrder[k]
         IN IF x \notin targets THEN Build(dist, k + 1, targets, ok, id)
            ELSE IF ~ok[x] THEN [dist |-> dist, success |-> FALSE]
            ELSE Build([dist EXCEPT ![x] = id], k + 1, targets, ok, id)

\* The targets of the build command from its options.
Targets(all, i, p) ==
    IF all THEN Exes
    ELSE IF ~i /\ ~p THEN {"SVModInstaller"}
    ELSE {x \in Exes : (x = "SVModInstaller" /\ i) \/ (x = "SVPathFinder" /\ p)}

\* build_release_package for the executable x: the package directory of the
\* version is removed first and at the end; the archive is written when the
\* executable and the readme exist and nothing fails.
Package(t, x, readme, fails) ==
    IF fails THEN t
    ELSE IF t.dist[x] # 0 /\ readme
    THEN [t EXCEPT !.zips = @ \cup {x}]
    ELSE t

\* A process of the tool has ended; `built`: run_build_all, or the build of
\* the chosen targets, was run by it and returned True; `attempted`,
\* `downloaded`: the projects download_zip was called for, and those whose
\* archive it wrote to the end.
Exit(t, cmd, code, failure, reported, success) ==
    [t EXCEPT !.runs = tool.runs + 1, !.cmd = cmd, !.exit = code,
              !.failure = failure, !.reported = reported, !.success = success,
              !.built = failure # "build" /\ cmd \in {"build", "replace"},
              !.attempted = IF cmd = "update" THEN t.attempted ELSE {},
              !.downloaded = IF cmd = "update" THEN t.downloaded ELSE {},
              !.changed = <<t.pkg, t.pkgExe, t.zips>>
                              # <<tool.pkg, tool.pkgExe, tool.zips>>]

\* `from src.tool import ...` at the head of project.py: without the src
\* directory the import raises and the process ends before main.
ImportFails == ~tool.src

InitTool ==
    /\ SyncIdle
    /\ PathIdle
    /\ ZipIdle
    /\ MainIdle
    /\ info = NoInfo
    /\ ver = NoVersion
    /\ cache \in {[r \in Repos |-> NoCacheFile],
                  [r \in Repos |-> [exists |-> TRUE, age |-> 0, data |-> Cached]]}
    /\ \E s, p \in BOOLEAN, d \in 0..1 :
          tool = [NoTool EXCEPT !.src = s, !.dist = [x \in Exes |-> d],
                                !.pkg = p, !.pkgExe = IF p THEN 1 ELSE 0]

\* python project.py <cmd> without the src directory.
main_import_error(cmd) ==
    /\ tool.runs < MaxRuns
    /\ ImportFails
    /\ tool' = Exit(tool, cmd, 1, "import", FALSE, FALSE)
    /\ UNCHANGED <<cache, info, ver, notDevVars>>

\* python project.py update
main_update(resp, dl) ==
    /\ tool.runs < MaxRuns
    /\ ~ImportFails
    /\ LET st == Update([cache |-> cache, res |-> tool.res, count |-> 0,
                         tried |-> {}, done |-> {}, raised |-> FALSE,
                         failure |-> "none",
                         reported |-> FALSE], 1, resp, dl)
       IN /\ cache' = st.cache
          /\ tool' = Exit([tool EXCEPT !.res = st.res, !.attempted = st.tried,
                                        !.downloaded = st.done], "update",
                          IF st.raised THEN 1 ELSE 0, st.failure, st.reported,
                          ~st.raised /\ st.count = Len(RepoOrder))
    /\ UNCHANGED <<info, ver, notDevVars>>

\* python project.py build [--all] [-i] [-p]
main_build(all, i, p, ok, clean) ==
    /\ tool.runs < MaxRuns
    /\ ~ImportFails
    /\ LET b == Build(Clean(tool.dist, clean), 1, Targets(all, i, p), ok,
                      tool.runs + 2)
       IN tool' = Exit([tool EXCEPT !.dist = b.dist], "build", 0,
                       IF b.success THEN "none" ELSE "build",
                       ~b.success \/ ~clean, b.success)
    /\ UNCHANGED <<cache, info, ver, notDevVars>>

\* python project.py release [--version V]
main_release(mk, version, readme, fails) ==
    /\ tool.runs < MaxRuns
    /\ ~ImportFails
    /\ tool' =
          IF \A x \in Exes : tool.dist[x] = 0
          THEN Exit(tool, "release", 0, "dist", TRUE, FALSE)
          ELSE IF ~mk
          THEN Exit(tool, "release", 1, "mkdir", FALSE, FALSE)
          ELSE IF version = "empty"
          THEN Exit(tool, "release", 0, "version", TRUE, FALSE)
          ELSE LET t0 == IF fails THEN tool
                         ELSE [tool EXCEPT !.pkg = FALSE, !.pkgExe = 0]
                   t1 == Package(t0, "SVModInstaller", readme[1], fails)
                   t2 == Package(t1, "SVPathFinder", readme[2], fails)
                   done == /\ ~fails
                           /\ \A k \in 1..2 :
                                 readme[k] /\ tool.dist[BuildOrder[k]] # 0
               IN Exit(t2, "release", 0, IF done THEN "none" ELSE "package",
                       ~done, done)
    /\ UNCHANGED <<cache, info, ver, notDevVars>>

\* Variant of Replace: the result of run_build_all is not looked at.
Replace_ignores_build(t, built, version, exe, cp) ==
    IF version = "empty"
    THEN Exit(t, "replace", 0, IF built THEN "version" ELSE "build", TRUE, FALSE)
    ELSE IF ~exe \/ t.dist["SVModInstaller"] = 0
    THEN Exit(t, "replace", 0, IF built THEN "source" ELSE "build", TRUE, FALSE)
    ELSE IF ~t.pkg
    THEN Exit(t, "replace", 0, IF built THEN "destination" ELSE "build", TRUE,
              FALSE)
    ELSE IF cp = "denied"
    THEN Exit(t, "replace", 0, IF built THEN "copy" ELSE "build", TRUE, FALSE)
    ELSE IF cp = "cut"
    THEN Exit([t EXCEPT !.pkgExe = -1], "replace", 0,
              IF built THEN "copy" ELSE "build", TRUE, FALSE)
    ELSE Exit([t EXCEPT !.pkgExe = t.dist["SVModInstaller"]], "replace", 0,
              IF built THEN "none" ELSE "build", ~built, built)

\* The replace command after run_build_all, on the directories t: a failed
\* build, an empty version, a missing dist/SVModInstaller.exe (`exe`: the file
\* is where the build put it) and a missing package directory each end the
\* command with an error; otherwise copy2 writes the executable into the
\* package directory, is refused ("denied"), or fails after the target was
\* opened for writing ("cut": the file of the package, numbered -1, is
\* incomplete), and a failure is reported.
Replace(t, built, version, exe, cp) ==
    IF ~built THEN Exit(t, "replace", 0, "build", TRUE, FALSE)
    ELSE IF version = "empty"
    THEN Exit(t, "replace", 0, "version", TRUE, FALSE)
    ELSE IF ~exe \/ t.dist["SVModInstaller"] = 0
    THEN Exit(t, "replace", 0, "source", TRUE, FALSE)
    ELSE IF ~t.pkg
    THEN Exit(t, "replace", 0, "destination", TRUE, FALSE)
    ELSE IF cp = "denied"
    THEN Exit(t, "replace", 0, "copy", TRUE, FALSE)
    ELSE IF cp = "cut"
    THEN Exit([t EXCEPT !.pkgExe = -1], "replace", 0, "copy", TRUE, FALSE)
    ELSE Exit([t EXCEPT !.pkgExe = t.dist["SVModInstaller"]], "replace", 0,
              "none", FALSE, TRUE)

\* python project.py replace
main_replace(ok, clean, version, exe, cp) ==
    /\ tool.runs < MaxRuns
    /\ ~ImportFails
    /\ LET b == Build(Clean(tool.dist, clean), 1, Exes, ok, tool.runs + 2)
           t == [tool EXCEPT !.dist = IF exe THEN b.dist
                                      ELSE [b.dist EXCEPT !["SVModInstaller"] = 0]]
       IN tool' = Replace(t, b.success, version, exe, cp)
    /\ UNCHANGED <<cache, info, ver, notDevVars>>

NextTool ==
    \/ \E cmd \in {"update", "build", "release", "replace"} :
          main_import_error(cmd)
    \/ \E resp \in [Repos -> ToolResponses], dl \in [Repos -> Downloads] :
          main_update(resp, dl)
    \/ \E all, i, p, clean \in BOOLEAN, ok \in [Exes -> BOOLEAN] :
          main_build(all, i, p, ok, clean)
    \/ \E mk, fails \in BOOLEAN, version \in {"named", "empty"},
          readme \in [1..2 -> BOOLEAN] :
          main_release(mk, version, readme, fails)
    \/ \E clean, exe \in BOOLEAN, ok \in [Exes -> BOOLEAN],
          version \in {"named", "empty"}, cp \in {"ok", "denied", "cut"} :
          main_replace(ok, clean, version, exe, cp)

SpecTool == InitTool /\ [][NextTool]_vars

\* ------------------------------------------- claims: commands of project.py
\* C18 (as claimed): a failure of the build command (a target fails to build,
\* or the src or resource directory is missing) ends the process with a
\* non-zero exit code; a failure of update, release or replace is reported on
\* the console and the process ends with exit code 0.
C18_OnlyBuildFailureExitsNonZero ==
    tool.runs > 0 =>
        /\ (tool.cmd = "build" /\ tool.failure # "none") => tool.exit # 0
        /\ (tool.cmd \in {"update", "release", "replace"}
               /\ tool.failure \notin {"none", "import"})
              => tool.reported /\ tool.exit = 0

\* A target of the build command failed to build and the process ended with
\* exit code 0.
C18_FailedBuildExitsZero ==
    /\ tool.runs > 0
    /\ tool.cmd = "build"
    /\ tool.failure = "build"
    /\ tool.reported
    /\ tool.exit = 0

\* The request of the update command raised and the process ended with a
\* non-zero exit code.
C18_FailedUpdateExitsNonZero ==
    /\ tool.runs > 0
    /\ tool.cmd = "update"
    /\ tool.failure = "fetch"
    /\ tool.exit # 0

\* The exit code is non-zero exactly when an exception leaves the process:
\* the import of src.tool fails, the request of update raises, or the release
\* directory cannot be created.
C18_ExitCodeOnlyFromExceptions ==
    tool.runs > 0 =>
        (tool.exit # 0 <=>
            \/ tool.failure \in {"import", "mkdir"}
            \/ tool.cmd = "update" /\ tool.failure = "fetch" /\ ~tool.success
               /\ tool.exit = 1)

\* The last process ran the replace command.
Replaced == tool.runs > 0 /\ tool.cmd = "replace" /\ tool.failure # "import"

\* C21: the replace command overwrites SVModInstaller.exe inside the release
\* package directory only when the full rebuild succeeded, the built
\* executable exists and the package directory already exists; in every other
\* case it reports an error and changes nothing under the release directory.
\* When nothing fails the executable of the package is the one just built.
C21_ReplaceOnlyAfterFullBuild ==
    Replaced =>
        /\ tool.changed =>
              /\ tool.built
              /\ tool.dist["SVModInstaller"] = tool.runs + 1
              /\ tool.pkg
        /\ ~(tool.built /\ tool.dist["SVModInstaller"] # 0 /\ tool.pkg) =>
              /\ tool.reported
              /\ ~tool.changed
              /\ ~tool.success
        /\ tool.success =>
              /\ tool.pkgExe = tool.dist["SVModInstaller"]
              /\ tool.pkgExe = tool.runs + 1

\* C21 witness: a replace command whose rebuild succeeded has put the new
\* executable in place of the one the package directory held.
C21_Witness ==
    /\ Replaced
    /\ tool.success
    /\ tool.changed
    /\ tool.pkgExe = tool.runs + 1

\* A replace command whose rebuild failed while an executable of an earlier
\* build was still in dist has left the package directory as it was.
C21_FailedBuildWitness ==
    /\ Replaced
    /\ ~tool.built
    /\ tool.dist["SVModInstaller"] # 0
    /\ tool.pkg
    /\ ~tool.changed

\* ========================================================== entry names
\* The name zipfile hands out for an entry without the UTF-8 flag is its
\* bytes read as cp437; for an entry with the flag it is the UTF-8 text. A
\* stored name is a sequence of Unicode code points; bytes are 0..255.

\* Bound: the longest stored name.
MaxStored == 3

\* The code points used: "a"; the characters cp437 has for the bytes E4, B8,
\* AD (the UTF-8 bytes of U+4E2D) and FF; and U+4E2D itself, which cp437 does
\* not have.
StoredChars == {97, 931, 9557, 161, 160, 20013}

StoredNames == UNION {[1..n -> StoredChars] : n \in 1..MaxStored}

\* The cp437 byte of a code point, -1 when cp437 has none
\* (str.encode('cp437') raises UnicodeEncodeError).
Cp437Byte(c) ==
    CASE c = 97 -> 97
      [] c = 931 -> 228
      [] c = 9557 -> 184
      [] c = 161 -> 173
      [] c = 160 -> 255
      [] OTHER -> -1

\* str.encode('cp437'): the bytes, or the error.
EncodeCp437(t) ==
    IF \E i \in DOMAIN t : Cp437Byte(t[i]) = -1
    THEN [ok |-> FALSE, bytes |-> <<>>]
    ELSE [ok |-> TRUE, bytes |-> [i \in DOMAIN t |-> Cp437Byte(t[i])]]

\* The two-byte codes of GBK: the trail byte is 0x40..0xFE other than 0x7F,
\* and the pair lies in GBK/3 (lead 81..A0), GBK/1 (A1..A9, trail from A1),
\* GBK/5 (A8..A9, trail to A0), GBK/4 (AA..FE, trail to A0) or GBK/2
\* (B0..F7, trail from A1); the user-defined areas decode to nothing.
GbkPair(l, t) ==
    /\ t >= 64 /\ t <= 254 /\ t # 127
    /\ \/ l >= 129 /\ l <= 160
       \/ l >= 161 /\ l <= 169 /\ t >= 161
       \/ l >= 168 /\ l <= 169 /\ t <= 160
       \/ l >= 170 /\ l <= 254 /\ t <= 160
       \/ l >= 176 /\ l <= 247 /\ t >= 161

RECURSIVE DecodeGbk(_)
\* bytes.decode('gbk'): a byte below 128 is itself; a lead byte takes a trail
\* byte, the pair numbered lead * 256 + trail; anything else is a
\* UnicodeDecodeError.
DecodeGbk(b) ==
    IF b = <<>> THEN [ok |-> TRUE, text |-> <<>>]
    ELSE IF b[1] < 128
    THEN LET r == DecodeGbk(Tail(b))
         IN [ok |-> r.ok, text |-> IF r.ok THEN <<b[1]>> \o r.text ELSE <<>>]
    ELSE IF b[1] >= 129 /\ Len(b) >= 2 /\ GbkPair(b[1], b[2])
    THEN LET r == DecodeGbk(SubSeq(b, 3, Len(b)))
         IN [ok |-> r.ok,
             text |-> IF r.ok THEN <<b[1] * 256 + b[2]>> \o r.text ELSE <<>>]
    ELSE [ok |-> FALSE, text |-> <<>>]

\* A continuation byte of UTF-8.
Continues(x) == x >= 128 /\ x <= 191

RECURSIVE DecodeUtf8(_)
\* bytes.decode('utf-8') for sequences of one to three bytes: a byte below
\* 128; 0xC2..0xDF with one continuation byte; 0xE0..0xEF with two (no
\* overlong form, no surrogate); anything else is a UnicodeDecodeError.
DecodeUtf8(b) ==
    IF b = <<>> THEN [ok |-> TRUE, text |-> <<>>]
    ELSE IF b[1] < 128
    THEN LET r == DecodeUtf8(Tail(b))
         IN [ok |-> r.ok, text |-> IF r.ok THEN <<b[1]>> \o r.text ELSE <<>>]
    ELSE IF b[1] >= 194 /\ b[1] <= 223 /\ Len(b) >= 2 /\ Continues(b[2])
    THEN LET r == DecodeUtf8(SubSeq(b, 3, Len(b)))
         IN [ok |-> r.ok,
             text |-> IF r.ok
                      THEN <<(b[1] - 192) * 64 + (b[2] - 128)>> \o r.text
                      ELSE <<>>]
    ELSE IF /\ b[1] >= 224 /\ b[1] <= 239 /\ Len(b) >= 3
            /\ Continues(b[2]) /\ Continues(b[3])
            /\ b[1] = 224 => b[2] >= 160
            /\ b[1] = 237 => b[2] <= 159
    THEN LET r == DecodeUtf8(SubSeq(b, 4, Len(b)))
         IN [ok |-> r.ok,
             text |-> IF r.ok
                      THEN <<(b[1] - 224) * 4096 + (b[2] - 128) * 64
                               + (b[3] - 128)>> \o r.text
                      ELSE <<>>]
    ELSE [ok |-> FALSE, text |-> <<>>]

\* Variant of Recover: an error of the encoding is handled like one of the
\* decodings.
Recover_catches_encode(t) ==
    LET e == EncodeCp437(t)
    IN IF e.ok /\ DecodeGbk(e.bytes).ok
       THEN [via |-> "gbk", text |-> DecodeGbk(e.bytes).text, warned |-> FALSE,
             error |-> "none"]
       ELSE IF e.ok /\ DecodeUtf8(e.bytes).ok
       THEN [via |-> "utf8", text |-> DecodeUtf8(e.bytes).text,
             warned |-> FALSE, error |-> "none"]
       ELSE [via |-> "raw", text |-> t, warned |-> TRUE, error |-> "none"]

\* The recovery of the name at the head of the loop of expand_zip_file:
\* encode('cp437').decode('gbk'); on UnicodeDecodeError
\* encode('cp437').decode('utf-8'); on UnicodeDecodeError again the stored
\* name with a warning. The handlers name UnicodeDecodeError only: the
\* UnicodeEncodeError of encode leaves the loop.
Recover(t) ==
    LET e == EncodeCp437(t)
    IN IF ~e.ok
       THEN [via |-> "none", text |-> <<>>, warned |-> FALSE,
             error |-> "UnicodeEncodeError"]
       ELSE IF DecodeGbk(e.bytes).ok
       THEN [via |-> "gbk", text |-> DecodeGbk(e.bytes).text, warned |-> FALSE,
             error |-> "none"]
       ELSE IF DecodeUtf8(e.bytes).ok
       THEN [via |-> "utf8", text |-> DecodeUtf8(e.bytes).text,
             warned |-> FALSE, error |-> "none"]
       ELSE [via |-> "raw", text |-> t, warned |-> TRUE, error |-> "none"]

InitNames ==
    /\ SyncIdle
    /\ PathIdle
    /\ MainIdle
    /\ DevIdle
    /\ disk = [d \in DestNames |-> NoDir]
    /\ outside = {}
    /\ zip = NoZip
    /\ returned = {}
    /\ archive = NoArchive
    /\ decoded \in {[NoName EXCEPT !.pc = "entry", !.stored = t] :
                       t \in StoredNames}

\* One pass of the loop over infolist() up to the name: an error that leaves
\* the loop is caught by the handler of expand_zip_file, reported and raised
\* again, which ends the extraction.
recover_filename ==
    /\ decoded.pc = "entry"
    /\ LET r == Recover(decoded.stored)
       IN decoded' = [pc |-> IF r.error = "none" THEN "named" ELSE "aborted",
                      stored |-> decoded.stored, via |-> r.via,
                      text |-> r.text, warned |-> r.warned, error |-> r.error]
    /\ UNCHANGED <<disk, outside, zip, returned, archive, notZipVars>>

NextNames == recover_filename

SpecNames == InitNames /\ [][NextNames]_vars

\* ------------------------------------------------- claims: entry names
\* The loop is past the recovery of the name, one way or the other.
NameDone == decoded.pc \in {"named", "aborted"}

\* C22 (as claimed): the name of an entry is its cp437 bytes decoded as GBK,
\* else as UTF-8, else the stored name; a failure of the recovery never
\* aborts the extraction, for every stored name including one that cannot be
\* encoded as cp437.
C22_NameRecoveryNeverAborts ==
    NameDone =>
        /\ decoded.pc = "named"
        /\ decoded.error = "none"
        /\ LET e == EncodeCp437(decoded.stored)
           IN /\ (e.ok /\ DecodeGbk(e.bytes).ok)
                    => decoded.text = DecodeGbk(e.bytes).text
              /\ (e.ok /\ ~DecodeGbk(e.bytes).ok /\ DecodeUtf8(e.bytes).ok)
                    => decoded.text = DecodeUtf8(e.bytes).text
              /\ (~e.ok \/ (~DecodeGbk(e.bytes).ok /\ ~DecodeUtf8(e.bytes).ok))
                    => decoded.text = decoded.stored

\* The part of C22 that holds: for a stored name that cp437 can encode the
\* order GBK, UTF-8, stored name is kept and nothing is raised.
C22_EncodableNamesRecovered ==
    (NameDone /\ EncodeCp437(decoded.stored).ok) =>
        /\ decoded.pc = "named"
        /\ LET b == EncodeCp437(decoded.stored).bytes
           IN /\ DecodeGbk(b).ok => decoded.via = "gbk"
              /\ (~DecodeGbk(b).ok /\ DecodeUtf8(b).ok)
                    => decoded.via = "utf8" /\ decoded.text = DecodeUtf8(b).text
              /\ (~DecodeGbk(b).ok /\ ~DecodeUtf8(b).ok)
                    => /\ decoded.via = "raw"
                       /\ decoded.text = decoded.stored
                       /\ decoded.warned

\* A stored name holding U+4E2D has ended the extraction.
C22_UnencodableNameAborts ==
    /\ decoded.pc = "aborted"
    /\ decoded.error = "UnicodeEncodeError"
    /\ decoded.stored = <<20013>>

\* The cp437 reading of the UTF-8 bytes of U+4E2D was recovered as U+4E2D.
C22_Utf8Recovered ==
    /\ decoded.pc = "named"
    /\ decoded.stored = <<931, 9557, 161>>
    /\ decoded.via = "utf8"
    /\ decoded.text = <<20013>>

\* ------------------------------------------ claims: failed extraction
\* C23 (as claimed): when the extraction fails at an archive entry,
\* expand_zip_file raises the error again to its caller, and the destination
\* directory with every entry written before the failing one remains on disk
\* as it was written: nothing is rolled back.
C23_FailureKeepsWrittenEntries ==
    (zip.n > 0 /\ zip.at > 0) =>
        /\ zip.raised
        /\ zip.error \in {"ValueError", "OSError"}
        /\ zip.result = 0
        /\ disk[zip.dest].exists
        /\ zip.prefix

\* C23 (amended): when the extraction fails at an archive entry,
\* expand_zip_file raises the error again, and the destination directory
\* remains with every entry written before the failing one, except that a
\* file an earlier entry wrote under the very name of the failing entry may
\* be left cut short by the failed write; nothing is removed.
C23_FailureKeepsOtherEntries ==
    (zip.n > 0 /\ zip.at > 0) =>
        /\ zip.raised
        /\ zip.error \in {"ValueError", "OSError"}
        /\ zip.result = 0
        /\ disk[zip.dest].exists
        /\ zip.others

\* C23 witness: the extraction failed at the second entry of an archive and
\* the first entry, a file, is in the destination directory as written.
C23_Witness ==
    /\ zip.n > 0
    /\ zip.raised
    /\ zip.at = 2
    /\ zip.prefix
    /\ zip.others
    /\ \E n \in EntryNames : disk[zip.dest].holds[n] >= 1

\* The failed write of the second entry has cut short the file the first
\* entry wrote under the same name.
C23_SameNameCutShort ==
    /\ zip.n > 0
    /\ zip.raised
    /\ zip.at = 2
    /\ ~zip.prefix
    /\ zip.others

\* ------------------------------------------------- repeated staging
\* An archive of the resource directory, the same during the run, is staged
\* by its callers under a destination name, as show_mod_menu does with the
\* archive find_zip_file("Mods") gives at each of its calls.
InitRetry ==
    /\ SyncIdle
    /\ PathIdle
    /\ MainIdle
    /\ DevIdle
    /\ disk = [d \in DestNames |-> NoDir]
    /\ outside = {}
    /\ zip = NoZip
    /\ returned = {}
    /\ decoded = NoName
    /\ archive \in [entries : Archives, version : Versions]

\* mods_dir = expand_zip_file(mods_zip, name)
stage_again(d, F) == expand_zip_file(d, archive.entries, archive.version, F)

NextRetry ==
    \E d \in DestNames :
        \E F \in ZipFaultsFor(disk[d], archive.entries) : stage_again(d, F)

SpecRetry == InitRetry /\ [][NextRetry]_vars

\* ------------------------------------------ claims: returned directory
\* C24 (as claimed): whenever expand_zip_file returns a directory without
\* raising, that directory holds every entry of the archive, after any
\* sequence of calls, including a call that follows a failed extraction of
\* the same archive to the same destination name.
C24_ReturnedDirectoryIsComplete ==
    (zip.n > 0 /\ ~zip.raised) => zip.present

\* A call that follows a failed extraction of the same archive to the same
\* destination name has returned the directory the failed call left, without
\* the entries of the archive.
C24_RetryReturnsPartial ==
    /\ zip.n > 1
    /\ zip.retry
    /\ ~zip.raised
    /\ zip.result = zip.dest
    /\ ~zip.extracted
    /\ ~zip.present

\* The part of C24 that holds: a call that extracted and did not raise has
\* returned a directory that holds every entry of the archive (a directory
\* entry named like an earlier file entry is that file).
C24_FreshExtractionIsComplete ==
    (zip.n > 0 /\ ~zip.raised /\ zip.extracted) => zip.present

\* ------------------------------------------ claims: units of several mods
\* C25 (as claimed): when copy is applied to all mods and no operation is
\* refused, a unit installed while one mod is processed is not deleted or
\* overwritten while another mod of the run is processed: after the run
\* mods_path holds, for every mod, the mirror of each of its units.
C25_UnitsOfAllModsInstalled ==
    (AllCopyRun /\ nfaults = 0) =>
        \A m \in Mods : \A n \in Units(m) : Mirrors(dest[n], m, n)

\* Two mods have a unit of the same name and different content, and after
\* the run mods_path holds the unit of the mod processed last only.
C25_SharedUnitOverwritten ==
    /\ AllCopyRun
    /\ nfaults = 0
    /\ \E m1, m2 \in Mods : \E n \in Units(m1) \cap Units(m2) :
          /\ m1 # m2
          /\ ~Mirrors(dest[n], m1, n)
          /\ Mirrors(dest[n], m2, n)

\* The part of C25 that holds: a unit whose name no other mod of the run
\* uses is in mods_path as its mod has it.
C25_UnsharedUnitsInstalled ==
    (AllCopyRun /\ nfaults = 0) =>
        \A m \in Mods : \A n \in Units(m) :
            (\A o \in Mods \ {m} : n \notin Units(o)) => Mirrors(dest[n], m, n)

\* ------------------------------------------------ claims: update command
\* The last process ran the update command to its end.
Updated == tool.runs > 0 /\ tool.cmd = "update" /\ tool.failure # "import"

\* C26 (as claimed): the update command reports that all files were updated
\* only if, for every upstream project, the matching asset was completely
\* downloaded into the resource directory in this run; a project whose
\* download failed is not counted as a success.
C26_AllUpdatedMeansAllDownloaded ==
    (Updated /\ tool.success) =>
        /\ tool.downloaded = Repos
        /\ \A r \in Repos : tool.res[r] = "complete"

\* The update command has reported that all files were updated although the
\* download of a project failed.
C26_FailedDownloadCounted ==
    /\ Updated
    /\ tool.success
    /\ tool.attempted = Repos
    /\ tool.downloaded # Repos

\* The part of C26 that holds: the report is made exactly when download_zip
\* was called for every project, that is, when every project had release
\* info with a matching asset.
C26_AllUpdatedMeansAllAttempted ==
    Updated => (tool.success <=> (tool.exit = 0 /\ tool.attempted = Repos))

\* C27 (as claimed): after download_zip ends in a failure of any kind
\* (request error, interrupted stream, write error), no partially written
\* file with the asset's name remains in the resource directory.
C27_FailedDownloadLeavesNoPartialFile ==
    Updated =>
        \A r \in tool.attempted \ tool.downloaded : tool.res[r] # "partial"

\* A download that failed has left a partially written file.
C27_PartialFileRemains ==
    /\ Updated
    /\ \E r \in tool.attempted \ tool.downloaded : tool.res[r] = "partial"
====
